---- MODULE Spec2Model ----
(***************************************************************************)
(* Workflow execution engine of the multi-agent orchestrator:              *)
(*   - WorkflowHistory (system/workflow_history.py): the live execution    *)
(*     record and its start/complete/fail/skip/gate/finalise operations;   *)
(*   - WorkflowExecutor.execute_workflow (system/workflow_executor.py);    *)
(*   - WorkflowOrchestrator._execute_with_workflow                         *)
(*     (agents/orchestrator_workflow.py) with its retry loop;              *)
(*   - AgentRegistry (agents/registry.py): update_metrics, skill levels,   *)
(*     find_best_agent;                                                     *)
(*   - TaskRouter.select_agents (agents/task_router.py);                   *)
(*   - Orchestrator.execute_task (agents/orchestrator.py): the dispatch of  *)
(*     a task to its agents and the recording of the outcomes.             *)
(* A step's id is its position in the template (ids are unique within a    *)
(* template); a quality gate's name is its position in the gate list.      *)
(***************************************************************************)
EXTENDS Integers, Sequences, FiniteSets, TLC

\* Bounds of the model.
MaxSteps == 3      \* longest template
MaxRetries == 2    \* largest max_retries of a step
MaxGates == 1      \* most quality gates of a template
MaxCalls == 5      \* history API calls in the free-caller specification
MaxDeps == 2       \* most depends_on entries of a template, all steps together
MaxTasks == 50     \* update_metrics calls on an agent in the promotion specification
MaxTimed == 3      \* update_metrics calls on an agent in the registry specification
MaxDuration == 2   \* longest task duration reported to update_metrics
MaxDispatches == 2 \* execute_task calls in flight on one event loop
MaxSupporting == 2 \* most supporting assignments of a dispatched task
MaxDirectory == 2  \* most agents registered in the router specification
MaxAgents == 3     \* largest max_agents passed to select_agents
MaxRecorded == 3   \* update_metrics calls on an agent in the scoring specification
Precision == 7     \* significant bits of a floating-point number
MaxWords == 3      \* longest task description, in words
MaxAnalyses == 2   \* analyze_task calls in the classifier specification
MaxOutputs == 1    \* most outputs a step declares
MaxWriters == 2    \* AgentRegistry instances sharing one registry file
MaxFiles == 2      \* most execution records in the history directory of the statistics
MaxClock == 2      \* last reading of the clock in the execution-id specification
MaxStarts == 3     \* start_execution calls in the execution-id specification

VARIABLES
    engine,               \* "executor" | "orchestrator" | "api" (free caller of WorkflowHistory)
    execution_mode,       \* WorkflowOrchestrator.execution_mode
    skip_optional_steps,  \* context.get('skip_optional_steps')
    steps,                \* workflow['steps']: sequence of [required, max_retries]
    quality_gates,        \* workflow['quality_gates']: sequence of [after_step, required, type]
    history,              \* the WorkflowExecution record and whether it is still in current_executions
    pc,                   \* position of the run
    i,                    \* loop index of `for i, step in enumerate(steps, 1)`
    step_iterations,      \* step_iterations[step_id]
    completed_steps,      \* the engine's local counter
    failed_steps,         \* the engine's local counter
    step_success,         \* local of the retry loop
    success,              \* the returned verdict ("none" until computed)
    aborted,              \* the step loop was left by `break`
    invocations,          \* per step: number of agent invocations made
    fail_calls,           \* per step: number of fail_step calls made by the engine
    approvals,            \* per step: value returned by _ask_step_approval ("none" if not asked)
    calls,                \* number of API calls made by the free caller
    last_call,            \* the last API call made by the free caller
    depends_on,           \* per step: step.get('depends_on', []), as a set of step ids
    step_has_name,        \* per step: whether the step document has a 'name' key
    step_outputs,         \* per step: step.get('outputs', [])
    history_dir,          \* workflows/history: the documents _save_execution wrote, oldest first
    validation,           \* per step: the rule types of step.get('validation', [])
    project_workspace,    \* whether the context names a project (a workspace to validate in)
    produced,             \* per step: the artifacts of its last successful invocation
    validation_passed,    \* per step: step.validation_passed of the history
    files,                \* the template files under workflows/: path -> workflow document
    returned,             \* the workflows the last list, show, match or selection returned
    store_call,           \* the last operation on the template stores
    history_files,        \* the records of workflows/history read by the statistics, oldest first
    statistics,           \* what the last get_workflow_statistics call returned
    clock,                \* datetime.now(), in microseconds since the first reading
    current_executions,   \* WorkflowHistory.current_executions: execution id -> execution
    execution_ids,        \* the ids start_execution returned, one per call, in call order
    agents,               \* AgentRegistry.agents: name -> skill level and metrics
    registry_file,        \* registry.json as last written by save_registry
    workload,             \* what the registry's callers report: how many tasks, which durations
    initial_level,        \* per agent: the skill level it was registered with
    writers,              \* per further AgentRegistry instance on the file: its agents, its position
    duration_sum,         \* per agent: sum of the durations reported for it
    dispatches,           \* per execute_task call: its assignments, invocations and results
    project_path,         \* per execute_task call: whether its context has a 'project_path'
    prompt_file,          \* workspace -> the invocation whose prompt its prompt.txt holds
    agent_order,          \* the names in AgentRegistry.agents, in insertion order
    analysis,             \* the TaskAnalysis of the task description
    max_agents,           \* the max_agents argument of select_agents
    assignments,          \* what select_agents returned (empty before the call)
    router_pc,            \* "call" before the call, "returned" after select_agents,
                          \* "found" after find_best_agent
    excluded,             \* the exclude argument of find_best_agent
    best_agent,           \* what find_best_agent returned ("None" for None)
    task_description,     \* the argument of the last analyze_task call, as a list of words
    task_analysis,        \* the TaskAnalysis it returned
    earlier_analysis,     \* the TaskAnalysis the call before it returned
    analyses              \* number of analyze_task calls made

idVars == << clock, current_executions, execution_ids >>

statisticsVars == << history_files, statistics, idVars >>

storeVars == << files, returned, store_call, statisticsVars >>

validationVars == << validation, project_workspace, produced, validation_passed >>

workflowVars == << engine, execution_mode, skip_optional_steps, steps, quality_gates, history,
                   pc, i, step_iterations, completed_steps, failed_steps, step_success,
                   success, aborted, invocations, fail_calls, approvals, calls, last_call,
                   depends_on, step_has_name, step_outputs, history_dir, storeVars,
                   validationVars >>

registryVars == << agents, registry_file, workload, initial_level, duration_sum, writers >>

classifierVars == << task_description, task_analysis, earlier_analysis, analyses >>

routerVars == << agent_order, analysis, max_agents, assignments, router_pc, excluded,
                best_agent, classifierVars >>

dispatchVars == << dispatches, project_path, prompt_file >>

vars == << workflowVars, registryVars, dispatchVars, routerVars >>

SeqsUpTo(S, n) == UNION {[1..m -> S] : m \in 0..n}

Min(a, b) == IF a < b THEN a ELSE b

Range(f) == {f[k] : k \in DOMAIN f}

-----------------------------------------------------------------------------
(* WorkflowHistory *)

StepStatus == {"pending", "running", "completed", "failed", "skipped"}
WorkflowStatus == {"running", "completed", "failed", "partial"}
TerminalStepStatus == {"completed", "failed", "skipped"}

\* WorkflowHistory() before start_execution: nothing in current_executions.
NoExecution ==
    [live |-> FALSE, status |-> "none", steps |-> << >>,
     total_steps |-> 0, completed_steps |-> 0, failed_steps |-> 0, skipped_steps |-> 0,
     quality_gates_passed |-> << >>, quality_gates_failed |-> << >>,
     user_interventions |-> 0, outputs_generated |-> << >>]

start_execution ==
    [NoExecution EXCEPT !.live = TRUE, !.status = "running"]

\* Index of the first step record with this id, 0 if there is none
\* (`for step in execution.steps: if step.step_id == step_id: ... break`).
FindStep(h, step_id) ==
    LET hits == {k \in 1..Len(h.steps) : h.steps[k].step_id = step_id}
    IN IF hits = {} THEN 0 ELSE CHOOSE k \in hits : \A m \in hits : k <= m

\* Mutant: the record is appended without counting it.
start_step_uncounted(h, step_id) ==
    IF ~h.live THEN h
    ELSE [h EXCEPT !.steps = Append(@, [step_id |-> step_id, status |-> "running",
                                        outputs |-> << >>])]

start_step(h, step_id) ==
    IF ~h.live THEN h
    ELSE [h EXCEPT !.steps = Append(@, [step_id |-> step_id, status |-> "running",
                                        outputs |-> << >>]),
                   !.total_steps = @ + 1]

complete_step(h, step_id, outputs) ==
    IF ~h.live THEN h
    ELSE LET k == FindStep(h, step_id) IN
         IF k = 0 THEN h
         ELSE [h EXCEPT !.steps[k].status = "completed",
                        !.steps[k].outputs = IF outputs # << >> THEN outputs ELSE @,
                        !.outputs_generated = @ \o outputs,
                        !.completed_steps = @ + 1]

fail_step(h, step_id) ==
    IF ~h.live THEN h
    ELSE LET k == FindStep(h, step_id) IN
         IF k = 0 THEN h
         ELSE [h EXCEPT !.steps[k].status = "failed",
                        !.failed_steps = @ + 1]

skip_step(h, step_id) ==
    IF ~h.live THEN h
    ELSE LET k == FindStep(h, step_id) IN
         IF k = 0 THEN h
         ELSE [h EXCEPT !.steps[k].status = "skipped",
                        !.skipped_steps = @ + 1]

record_quality_gate(h, gate_name, passed) ==
    IF ~h.live THEN h
    ELSE IF passed
         THEN [h EXCEPT !.quality_gates_passed = Append(@, gate_name)]
         ELSE [h EXCEPT !.quality_gates_failed = Append(@, gate_name)]

record_user_intervention(h) ==
    IF ~h.live THEN h
    ELSE [h EXCEPT !.user_interventions = @ + 1]

\* Mutant: a run reported successful is persisted as completed whatever failed.
final_status_ignores_failures(h, ok) ==
    IF ok THEN "completed"
    ELSE IF h.failed_steps > 0 /\ h.completed_steps > 0 THEN "partial"
    ELSE "failed"

\* Mutant: any failure with the first branch not taken is persisted as partial.
final_status_partial_on_any_failure(h, ok) ==
    IF ok /\ h.failed_steps = 0 THEN "completed"
    ELSE IF h.failed_steps > 0 THEN "partial"
    ELSE "failed"

\* The status written by complete_execution.
final_status(h, ok) ==
    IF ok /\ h.failed_steps = 0 THEN "completed"
    ELSE IF h.failed_steps > 0 /\ h.completed_steps > 0 THEN "partial"
    ELSE "failed"

\* Mutant: the finalised execution is left in current_executions.
complete_execution_keeps_live(h, ok) ==
    IF ~h.live THEN h
    ELSE [h EXCEPT !.status = final_status(h, ok)]

\* complete_execution: sets the status, saves the record and deletes it from
\* current_executions; the record kept in `history` is then the persisted one.
complete_execution(h, ok) ==
    IF ~h.live THEN h
    ELSE [h EXCEPT !.status = final_status(h, ok), !.live = FALSE]

\* JSON values: what json.dump writes of a str, an int and a list.
json_string(s) == [type |-> "string", value |-> s]

json_number(n) == [type |-> "number", value |-> n]

json_array(items) == [type |-> "array", items |-> items]

json_strings(list) == json_array([k \in DOMAIN list |-> json_string(list[k])])

\* asdict of a StepExecution, as json.dump writes it.
dump_step(step) ==
    [step_id |-> json_string(step.step_id), status |-> json_string(step.status),
     outputs |-> json_strings(step.outputs)]

\* json.dump(asdict(execution)): the document of an execution.
dump_execution(h) ==
    [status |-> json_string(h.status),
     steps |-> json_array([k \in DOMAIN h.steps |-> dump_step(h.steps[k])]),
     total_steps |-> json_number(h.total_steps),
     completed_steps |-> json_number(h.completed_steps),
     failed_steps |-> json_number(h.failed_steps),
     skipped_steps |-> json_number(h.skipped_steps),
     quality_gates_passed |-> json_strings(h.quality_gates_passed),
     quality_gates_failed |-> json_strings(h.quality_gates_failed),
     user_interventions |-> json_number(h.user_interventions),
     outputs_generated |-> json_strings(h.outputs_generated)]

\* Mutant: json.dump fails, the error is printed and no document is kept.
save_execution_failing(dir, before, after) == dir

\* _save_execution, called by complete_execution when it finalises an
\* execution: one more document in the history directory.
save_execution(dir, before, after) ==
    IF before.live /\ ~after.live THEN Append(dir, dump_execution(after)) ELSE dir

\* json.load of a list of strings.
load_strings(array) == [k \in DOMAIN array.items |-> array.items[k].value]

\* StepExecution(**step)
load_step(object) ==
    [step_id |-> object.step_id.value, status |-> object.status.value,
     outputs |-> load_strings(object.outputs)]

\* WorkflowExecution(**data) with the step dicts converted back to
\* StepExecution objects; the execution is not in current_executions.
load_execution(document) ==
    [live |-> FALSE, status |-> document.status.value,
     steps |-> [k \in DOMAIN document.steps.items |-> load_step(document.steps.items[k])],
     total_steps |-> document.total_steps.value,
     completed_steps |-> document.completed_steps.value,
     failed_steps |-> document.failed_steps.value,
     skipped_steps |-> document.skipped_steps.value,
     quality_gates_passed |-> load_strings(document.quality_gates_passed),
     quality_gates_failed |-> load_strings(document.quality_gates_failed),
     user_interventions |-> document.user_interventions.value,
     outputs_generated |-> load_strings(document.outputs_generated)]

\* get_execution_history(): the executions of the newest 100 documents,
\* newest first.
get_execution_history(dir) ==
    [k \in 1..Min(Len(dir), 100) |-> load_execution(dir[Len(dir) + 1 - k])]

\* The history directory after an action that makes history'.
SaveExecution == history_dir' = save_execution(history_dir, history, history')

-----------------------------------------------------------------------------
(* AgentRegistry (agents/registry.py): metrics and skill levels *)

SkillLevel == {"novice", "intermediate", "expert", "master"}

\* Position of a skill level in novice < intermediate < expert < master.
Rank(level) ==
    CASE level = "novice" -> 0
      [] level = "intermediate" -> 1
      [] level = "expert" -> 2
      [] level = "master" -> 3

\* Times are exact rationals << numerator, denominator >> in lowest terms;
\* durations are whole seconds.
RECURSIVE GCD(_, _)
GCD(a, b) == IF b = 0 THEN a ELSE GCD(b, a % b)

Reduce(num, den) ==
    LET g == GCD(num, den) IN << num \div g, den \div g >>

Zero == << 0, 1 >>

\* AgentMetrics() of a newly registered agent.
NewMetrics ==
    [total_tasks |-> 0, successful_tasks |-> 0, failed_tasks |-> 0,
     avg_completion_time |-> Zero]

\* AgentDefinition: what the registry and the router read of it.
Agent(capabilities, level, metrics) ==
    [capabilities |-> capabilities, skill_level |-> level, metrics |-> metrics]

NewAgent(level) == Agent({}, level, NewMetrics)

\* AgentMetrics.success_rate >= percent, with
\* success_rate = 0.0 if total_tasks == 0 else successful_tasks / total_tasks * 100.
success_rate_at_least(metrics, percent) ==
    IF metrics.total_tasks = 0 THEN 0 >= percent
    ELSE metrics.successful_tasks * 100 >= percent * metrics.total_tasks

\* Mutant: an agent whose success rate has fallen below 75% loses a level.
update_skill_level_demotes(a) ==
    LET tasks == a.metrics.total_tasks
        m == a.metrics
    IN IF tasks >= 50 /\ success_rate_at_least(m, 90) /\ a.skill_level = "expert"
       THEN [a EXCEPT !.skill_level = "master"]
       ELSE IF tasks >= 20 /\ success_rate_at_least(m, 85) /\ a.skill_level = "intermediate"
       THEN [a EXCEPT !.skill_level = "expert"]
       ELSE IF tasks >= 5 /\ success_rate_at_least(m, 75) /\ a.skill_level = "novice"
       THEN [a EXCEPT !.skill_level = "intermediate"]
       ELSE IF tasks >= 5 /\ ~success_rate_at_least(m, 75) /\ a.skill_level = "intermediate"
       THEN [a EXCEPT !.skill_level = "novice"]
       ELSE a

\* Mutant: the rules do not look at the agent's current level.
update_skill_level_any_level(a) ==
    LET tasks == a.metrics.total_tasks
        m == a.metrics
    IN IF tasks >= 50 /\ success_rate_at_least(m, 90)
       THEN [a EXCEPT !.skill_level = "master"]
       ELSE IF tasks >= 20 /\ success_rate_at_least(m, 85)
       THEN [a EXCEPT !.skill_level = "expert"]
       ELSE IF tasks >= 5 /\ success_rate_at_least(m, 75)
       THEN [a EXCEPT !.skill_level = "intermediate"]
       ELSE a

\* _update_skill_level
update_skill_level(a) ==
    LET tasks == a.metrics.total_tasks
        m == a.metrics
    IN IF tasks >= 50 /\ success_rate_at_least(m, 90) /\ a.skill_level = "expert"
       THEN [a EXCEPT !.skill_level = "master"]
       ELSE IF tasks >= 20 /\ success_rate_at_least(m, 85) /\ a.skill_level = "intermediate"
       THEN [a EXCEPT !.skill_level = "expert"]
       ELSE IF tasks >= 5 /\ success_rate_at_least(m, 75) /\ a.skill_level = "novice"
       THEN [a EXCEPT !.skill_level = "intermediate"]
       ELSE a

\* The rolling average written by update_metrics; total_tasks is the count
\* after the increment.
rolling_average(avg, total_tasks, duration) ==
    IF avg = Zero
    THEN << duration, 1 >>
    ELSE Reduce(avg[1] * (total_tasks - 1) + duration * avg[2], avg[2] * total_tasks)

\* update_metrics on the agent's record (tokens, cost and last_used are not
\* modelled).
update_metrics(a, ok, duration) ==
    LET m == a.metrics
        total == m.total_tasks + 1
        counted == [m EXCEPT !.total_tasks = total,
                             !.successful_tasks = IF ok THEN @ + 1 ELSE @,
                             !.failed_tasks = IF ok THEN @ ELSE @ + 1,
                             !.avg_completion_time =
                                 rolling_average(@, total, duration)]
    IN update_skill_level([a EXCEPT !.metrics = counted])

\* TaskAnalysis
TaskAnalysis(task_type, required_capabilities, complexity, parallelize, estimated_subtasks, keywords) ==
    [task_type |-> task_type, required_capabilities |-> required_capabilities,
     complexity |-> complexity, can_parallelize |-> parallelize,
     estimated_subtasks |-> estimated_subtasks, keywords |-> keywords]

\* No analyze_task call: only the classifier specification makes one.
NoClassifier ==
    /\ task_description = << >>
    /\ task_analysis = TaskAnalysis("general", {}, "simple", FALSE, 1, << >>)
    /\ earlier_analysis = task_analysis
    /\ analyses = 0

\* No select_agents call: only the router specification makes one.
NoRouter ==
    /\ agent_order = << >>
    /\ analysis = [task_type |-> "general", complexity |-> "simple",
                   required_capabilities |-> {}]
    /\ max_agents = 0
    /\ assignments = << >>
    /\ router_pc = "none"
    /\ excluded = {}
    /\ best_agent = "None"
    /\ NoClassifier

\* No AgentRegistry instance besides the one of `agents`.
NoWriters == writers = << >>

\* No execute_task call.
NoDispatch ==
    /\ dispatches = << >>
    /\ project_path = << >>
    /\ prompt_file = << >>

\* No registry: the workflow specifications do not use one.
NoRegistry ==
    /\ agents = << >>
    /\ registry_file = << >>
    /\ workload = [tasks |-> 0, durations |-> {}]
    /\ initial_level = << >>
    /\ duration_sum = << >>
    /\ NoWriters
    /\ NoDispatch
    /\ NoRouter

\* One update_metrics call, from the lookup of the agent to save_registry.
UpdateMetrics ==
    /\ \E name \in DOMAIN agents, ok \in BOOLEAN, duration \in workload.durations :
        /\ agents[name].metrics.total_tasks < workload.tasks
        /\ agents' = [agents EXCEPT ![name] = update_metrics(@, ok, duration)]
        /\ registry_file' = agents'
        /\ duration_sum' = [duration_sum EXCEPT ![name] = @ + duration]
    /\ UNCHANGED << workload, initial_level, writers, dispatchVars, routerVars >>
    /\ UNCHANGED workflowVars

\* No template files and no operation on the stores.
NoStore ==
    /\ files = << >>
    /\ returned = {}
    /\ store_call = "none"
    /\ history_files = << >>
    /\ statistics = [called |-> FALSE]
    /\ clock = 0
    /\ current_executions = << >>
    /\ execution_ids = << >>

\* No workflow run: the registry specifications do not use one.
NoWorkflow ==
    /\ engine = "none"
    /\ execution_mode = "independent"
    /\ skip_optional_steps = FALSE
    /\ steps = << >>
    /\ quality_gates = << >>
    /\ history = NoExecution
    /\ pc = "none"
    /\ i = 1
    /\ step_iterations = << >>
    /\ completed_steps = 0
    /\ failed_steps = 0
    /\ step_success = FALSE
    /\ success = "none"
    /\ aborted = FALSE
    /\ invocations = << >>
    /\ fail_calls = << >>
    /\ approvals = << >>
    /\ calls = 0
    /\ last_call = "none"
    /\ depends_on = << >>
    /\ step_has_name = << >>
    /\ step_outputs = << >>
    /\ history_dir = << >>
    /\ NoStore
    /\ validation = << >>
    /\ project_workspace = FALSE
    /\ produced = << >>
    /\ validation_passed = << >>

\* A registry with one agent, registered at any level with new metrics.
OneAgent ==
    /\ NoWorkflow
    /\ agents \in [{"code_writer"} -> {NewAgent(level) : level \in SkillLevel}]
    /\ registry_file = agents
    /\ initial_level = [name \in DOMAIN agents |-> agents[name].skill_level]
    /\ duration_sum = [name \in DOMAIN agents |-> 0]
    /\ NoWriters
    /\ NoDispatch
    /\ NoRouter

\* Few calls, reporting any duration.
InitRegistry ==
    /\ OneAgent
    /\ workload = [tasks |-> MaxTimed, durations |-> 0..MaxDuration]

NextRegistry == UpdateMetrics

SpecRegistry == InitRegistry /\ [][NextRegistry]_vars

\* Many calls, all reporting the same duration.
InitPromotion ==
    /\ OneAgent
    /\ workload = [tasks |-> MaxTasks, durations |-> {1}]

SpecPromotion == InitPromotion /\ [][NextRegistry]_vars

-----------------------------------------------------------------------------
(* Several AgentRegistry instances (or processes) on one registry file.  Each
   loads the file when it is constructed, changes its own agents in memory
   and writes the whole file in save_registry; nothing locks the file. *)

WriterUnchanged ==
    /\ UNCHANGED << agents, workload, initial_level, duration_sum >>
    /\ UNCHANGED << workflowVars, dispatchVars, routerVars >>

\* AgentRegistry(registry_path): load_registry reads the agents' metrics from
\* the file.
WriterLoad ==
    /\ \E w \in DOMAIN writers :
        /\ writers[w].pc = "none"
        /\ writers' = [writers EXCEPT ![w] = [agents |-> registry_file, pc |-> "loaded"]]
    /\ UNCHANGED registry_file
    /\ WriterUnchanged

\* update_metrics up to save_registry: the instance's own record is updated.
WriterUpdate ==
    /\ \E w \in DOMAIN writers, name \in DOMAIN registry_file, ok \in BOOLEAN,
          duration \in workload.durations :
        /\ writers[w].pc = "loaded"
        /\ writers' = [writers EXCEPT
               ![w].agents[name] = update_metrics(@, ok, duration),
               ![w].pc = "updated"]
    /\ UNCHANGED registry_file
    /\ WriterUnchanged

\* save_registry at the end of update_metrics: the whole file is replaced by
\* the instance's agents.
WriterSave ==
    /\ \E w \in DOMAIN writers :
        /\ writers[w].pc = "updated"
        /\ registry_file' = writers[w].agents
        /\ writers' = [writers EXCEPT ![w].pc = "saved"]
    /\ WriterUnchanged

\* A registry file with two agents and instances not yet constructed.
InitWriters ==
    /\ NoWorkflow
    /\ agents = [name \in {"code_writer", "tester"} |-> NewAgent("novice")]
    /\ registry_file = agents
    /\ workload = [tasks |-> 1, durations |-> {1}]
    /\ initial_level = [name \in DOMAIN agents |-> "novice"]
    /\ duration_sum = [name \in DOMAIN agents |-> 0]
    /\ writers = [w \in 1..MaxWriters |-> [agents |-> << >>, pc |-> "none"]]
    /\ NoDispatch
    /\ NoRouter

NextWriters ==
    \/ WriterLoad
    \/ WriterUpdate
    \/ WriterSave

SpecWriters == InitWriters /\ [][NextWriters]_vars

-----------------------------------------------------------------------------
(* TaskRouter.select_agents (agents/task_router.py) and
   AgentRegistry.find_best_agent *)

\* seq[:n] of Python: the first n elements, all of them if n exceeds the
\* length, and all but the last -n if n is negative.
slice_to(seq, n) ==
    IF n >= 0 THEN SubSeq(seq, 1, Min(n, Len(seq)))
    ELSE SubSeq(seq, 1, IF Len(seq) + n > 0 THEN Len(seq) + n ELSE 0)

\* a < b for rationals with positive denominators.
Less(a, b) == a[1] * b[2] < b[1] * a[2]

\* skill_bonus of find_best_agent, in tenths.
skill_bonus(level) ==
    CASE level = "novice" -> 10
      [] level = "intermediate" -> 12
      [] level = "expert" -> 15
      [] level = "master" -> 20

\* The floating-point number nearest to num / den (num >= 0, den > 0), ties
\* to the even significand: what a Python float holds of a real number.
\* Significands have Precision bits; on every pair of scores within the
\* bounds the order is the order of the 53-bit numbers of the interpreter.
RECURSIVE float_round(_, _)
float_round(num, den) ==
    IF num = 0 THEN Zero
    ELSE IF num >= 2 ^ Precision * den
    THEN LET r == float_round(num, 2 * den) IN Reduce(2 * r[1], r[2])
    ELSE IF num < 2 ^ (Precision - 1) * den
    THEN LET r == float_round(2 * num, den) IN Reduce(r[1], 2 * r[2])
    ELSE LET q == num \div den
             rest == num % den
         IN IF 2 * rest > den \/ (2 * rest = den /\ q % 2 = 1)
            THEN << q + 1, 1 >> ELSE << q, 1 >>

\* a * b and a / b of two floats.
float_mul(a, b) == float_round(a[1] * b[1], a[2] * b[2])

float_div(a, b) == float_round(a[1] * b[2], a[2] * b[1])

\* success_rate without the percentage.
success_rate_as_fraction(metrics) ==
    IF metrics.total_tasks = 0 THEN Zero
    ELSE float_div(<< metrics.successful_tasks, 1 >>, << metrics.total_tasks, 1 >>)

\* AgentMetrics.success_rate: computed from the counters at each read.
success_rate(metrics) ==
    IF metrics.total_tasks = 0 THEN Zero
    ELSE float_mul(float_div(<< metrics.successful_tasks, 1 >>, << metrics.total_tasks, 1 >>),
                   << 100, 1 >>)

\* c.lower() of a capability or of a word.
lower(c) ==
    CASE c = "Python" -> "python"
      [] c = "Fix" -> "fix"
      [] OTHER -> c

\* set(c.lower() for c in capabilities)
lower_caps(capabilities) == {lower(c) : c \in capabilities}

\* score = match_count * skill_bonus * (success_rate / 100), evaluated from
\* left to right in floating point.
score(a, capabilities) ==
    LET match_count == Cardinality(lower_caps(a.capabilities) \cap lower_caps(capabilities))
    IN float_mul(float_mul(<< match_count, 1 >>, float_round(skill_bonus(a.skill_level), 10)),
                 float_div(success_rate(a.metrics), << 100, 1 >>))

\* find_best_agent: of the agents sharing a capability with the task, the
\* first in registry order with the highest score (the sort is stable);
\* "None" if there is no such agent.
find_best_agent(order, registry, capabilities, exclude) ==
    LET candidates == {k \in DOMAIN order :
                          /\ order[k] \notin exclude
                          /\ lower_caps(registry[order[k]].capabilities)
                                 \cap lower_caps(capabilities) # {}}
        best(k) == \A j \in candidates :
                      /\ ~Less(score(registry[order[k]], capabilities),
                               score(registry[order[j]], capabilities))
                      /\ j < k => Less(score(registry[order[j]], capabilities),
                                       score(registry[order[k]], capabilities))
    IN IF candidates = {} THEN "None"
       ELSE order[CHOOSE k \in candidates : best(k)]

\* skill_multiplier with the table of skill_bonus.
skill_multiplier_of_scoring(level) == skill_bonus(level)

\* skill_multiplier of _calculate_confidence, in tenths.
skill_multiplier(level) ==
    CASE level = "novice" -> 8
      [] level = "intermediate" -> 10
      [] level = "expert" -> 12
      [] level = "master" -> 15

\* _calculate_confidence without the cap.
calculate_confidence_uncapped(a, required) ==
    LET overlap == IF required = {} THEN << 1, 2 >>
                   ELSE << Cardinality(lower_caps(a.capabilities) \cap lower_caps(required)),
                           Cardinality(lower_caps(required)) >>
        rate == IF a.metrics.total_tasks = 0 THEN Zero
                ELSE << a.metrics.successful_tasks, a.metrics.total_tasks >>
    IN Reduce(overlap[1] * rate[1] * skill_multiplier(a.skill_level),
              overlap[2] * rate[2] * 10)

\* _calculate_confidence: min(overlap * success_rate / 100 * skill_multiplier, 0.95)
calculate_confidence(a, required) ==
    LET overlap == IF required = {} THEN << 1, 2 >>
                   ELSE << Cardinality(lower_caps(a.capabilities) \cap lower_caps(required)),
                           Cardinality(lower_caps(required)) >>
        rate == IF a.metrics.total_tasks = 0 THEN Zero
                ELSE << a.metrics.successful_tasks, a.metrics.total_tasks >>
        confidence == Reduce(overlap[1] * rate[1] * skill_multiplier(a.skill_level),
                             overlap[2] * rate[2] * 10)
    IN IF Less(<< 19, 20 >>, confidence) THEN << 19, 20 >> ELSE confidence

Assignment(name, priority, confidence_score, reason) ==
    [agent |-> name, priority |-> priority, confidence_score |-> confidence_score,
     reason |-> reason]

\* _find_supporting_agents adding the tester to implementation tasks only.
find_supporting_agents_tester_for_implementation(registry, task, exclude) ==
    LET usable(name) == name \in DOMAIN registry /\ name \notin exclude
        tester ==
            IF task.task_type = "implementation" /\ usable("tester")
            THEN << Assignment("tester", "supporting", << 4, 5 >>, "Validate implementation") >>
            ELSE << >>
        researcher ==
            IF task.complexity = "complex" /\ usable("researcher")
            THEN << Assignment("researcher", "optional", << 3, 5 >>,
                               "Research best practices for complex task") >>
            ELSE << >>
        analyst ==
            IF task.task_type = "implementation" /\ task.complexity \in {"medium", "complex"}
               /\ usable("code_analyst")
            THEN << Assignment("code_analyst", "supporting", << 7, 10 >>,
                               "Review implementation quality") >>
            ELSE << >>
    IN tester \o researcher \o analyst

\* _find_supporting_agents: tester, researcher and code analyst, each if its
\* rule applies, it is registered and it is not excluded.
find_supporting_agents(registry, task, exclude) ==
    LET usable(name) == name \in DOMAIN registry /\ name \notin exclude
        tester ==
            IF task.task_type \in {"implementation", "bug_fixing", "refactoring"}
               /\ usable("tester")
            THEN << Assignment("tester", "supporting", << 4, 5 >>, "Validate implementation") >>
            ELSE << >>
        researcher ==
            IF task.complexity = "complex" /\ usable("researcher")
            THEN << Assignment("researcher", "optional", << 3, 5 >>,
                               "Research best practices for complex task") >>
            ELSE << >>
        analyst ==
            IF task.task_type = "implementation" /\ task.complexity \in {"medium", "complex"}
               /\ usable("code_analyst")
            THEN << Assignment("code_analyst", "supporting", << 7, 10 >>,
                               "Review implementation quality") >>
            ELSE << >>
    IN tester \o researcher \o analyst

\* select_agents, after analyze_task.
select_agents(order, registry, task, max) ==
    LET primary_agent ==
            IF task.required_capabilities # {}
            THEN find_best_agent(order, registry, task.required_capabilities, {})
            ELSE "None"
        primary ==
            IF primary_agent # "None"
            THEN << Assignment(primary_agent, "primary",
                               calculate_confidence(registry[primary_agent],
                                                    task.required_capabilities),
                               "Best match") >>
            ELSE << >>
        supporting_agents ==
            find_supporting_agents(registry, task, {primary[k].agent : k \in DOMAIN primary})
        selected == primary \o slice_to(supporting_agents, max - Len(primary))
    IN IF selected # << >> THEN selected
       ELSE IF "code_writer" \in DOMAIN registry
       THEN << Assignment("code_writer", "primary", Zero, "Default agent for general tasks") >>
       ELSE << >>

\* Names agents are registered under: those the router looks up and another.
AgentNames == {"code_writer", "tester", "researcher", "code_analyst", "helper"}

\* Capabilities agents declare.
AgentCapabilities == {"implementation", "python", "bug_fixing"}

\* The capabilities TASK_PATTERNS gives a task type ("general": no pattern matched).
pattern_capabilities(task_type) ==
    CASE task_type = "general" -> {}
      [] task_type = "implementation" -> {"implementation", "feature_development"}
      [] task_type = "bug_fixing" -> {"bug_fixing", "implementation"}
      [] task_type = "refactoring" -> {"refactoring", "code_review", "implementation"}

\* What analyze_task can return: a task type with its capabilities, the
\* languages named in the description added, and a complexity.
Analyses ==
    {[task_type |-> t, complexity |-> c, required_capabilities |-> pattern_capabilities(t) \cup l] :
        t \in {"general", "implementation", "bug_fixing", "refactoring"},
        c \in {"simple", "medium", "complex"},
        l \in {{}, {"python"}}}

\* The call of select_agents.
SelectAgents ==
    /\ router_pc = "call"
    /\ assignments' = select_agents(agent_order, agents, analysis, max_agents)
    /\ router_pc' = "returned"
    /\ UNCHANGED << agent_order, analysis, max_agents, excluded, best_agent, classifierVars >>
    /\ UNCHANGED << workflowVars, registryVars, dispatchVars >>

\* Any directory of new agents, any task, any cap.
InitRouter ==
    /\ NoWorkflow
    /\ agent_order \in SeqsUpTo(AgentNames, MaxDirectory)
    /\ \A j, k \in DOMAIN agent_order : j # k => agent_order[j] # agent_order[k]
    /\ agents \in [Range(agent_order) ->
                       {Agent(c, "novice", NewMetrics) : c \in SUBSET AgentCapabilities}]
    /\ registry_file = agents
    /\ workload = [tasks |-> 0, durations |-> {}]
    /\ initial_level = [name \in DOMAIN agents |-> "novice"]
    /\ duration_sum = [name \in DOMAIN agents |-> 0]
    /\ NoWriters
    /\ NoDispatch
    /\ analysis \in Analyses
    /\ max_agents \in 0..MaxAgents
    /\ assignments = << >>
    /\ router_pc = "call"
    /\ excluded = {}
    /\ best_agent = "None"
    /\ NoClassifier

NextRouter == SelectAgents

SpecRouter == InitRouter /\ [][NextRouter]_vars

\* The call of find_best_agent with the capabilities of the task, excluding
\* no agent or one of the registered agents.
FindBestAgent ==
    /\ router_pc = "call"
    /\ \E e \in SUBSET Range(agent_order) :
        /\ Cardinality(e) <= 1
        /\ excluded' = e
        /\ best_agent' = find_best_agent(agent_order, agents,
                                         analysis.required_capabilities, e)
    /\ router_pc' = "found"
    /\ UNCHANGED << agent_order, analysis, max_agents, assignments, classifierVars >>
    /\ UNCHANGED << workflowVars, registryVars, dispatchVars >>

\* A task recorded for an agent before the router is asked.
RecordTask == router_pc = "call" /\ UpdateMetrics

\* Names and capabilities of the agents of the scoring specification.
ScoringNames == {"code_writer", "tester"}

ScoringCapabilities == {{}, {"Python"}, {"implementation", "Python"}}

\* Agents of any capabilities and skill level, whose metrics grow with the
\* tasks recorded for them; then one call of select_agents or find_best_agent.
InitScoring ==
    /\ NoWorkflow
    /\ agent_order \in SeqsUpTo(ScoringNames, MaxDirectory)
    /\ \A j, k \in DOMAIN agent_order : j # k => agent_order[j] # agent_order[k]
    /\ agents \in [Range(agent_order) ->
                       {Agent(c, level, NewMetrics) :
                           c \in ScoringCapabilities, level \in SkillLevel}]
    /\ registry_file = agents
    /\ workload = [tasks |-> MaxRecorded, durations |-> {1}]
    /\ initial_level = [name \in DOMAIN agents |-> agents[name].skill_level]
    /\ duration_sum = [name \in DOMAIN agents |-> 0]
    /\ NoWriters
    /\ NoDispatch
    /\ analysis \in {a \in Analyses : /\ a.complexity = "simple"
                                      /\ a.task_type \in {"general", "implementation"}}
    /\ max_agents = MaxAgents
    /\ assignments = << >>
    /\ router_pc = "call"
    /\ excluded = {}
    /\ best_agent = "None"
    /\ NoClassifier

NextScoring ==
    \/ RecordTask
    \/ SelectAgents
    \/ FindBestAgent

SpecScoring == InitScoring /\ [][NextScoring]_vars

-----------------------------------------------------------------------------
(* TaskRouter.analyze_task (agents/task_router.py).  A task description is a
   list of words separated by single spaces. *)

\* Words of the task descriptions.
Words ==
    {"Fix", "fix", "bug", "implement", "feature", "refactor", "review", "code",
     "implementation", "system", "python", "then", "and"}

\* The keywords and markers that occur in a word, as substrings.
occurring_in(word) ==
    IF word = "implementation" THEN {"implementation", "implement"} ELSE {word}

\* TASK_PATTERNS, in the order of the dict: a word of `first`, white space
\* and a word beginning with one of `second` (no word of Words begins with
\* one of them without being it).  The patterns of one group match none of
\* the words.
TASK_PATTERNS ==
    << [first |-> {"review", "analyze", "examine", "inspect"},
        second |-> {"code", "implementation", "module", "function"},
        task_type |-> "code_analysis",
        capabilities |-> {"code_review", "architecture", "best_practices"}],
       [first |-> {"implement", "create", "build", "add", "write"},
        second |-> {"feature", "functionality", "function", "class", "module"},
        task_type |-> "implementation",
        capabilities |-> {"implementation", "feature_development"}],
       [first |-> {"refactor", "improve", "optimize", "cleanup"},
        second |-> {"code", "implementation"},
        task_type |-> "refactoring",
        capabilities |-> {"refactoring", "code_review", "implementation"}],
       [first |-> {"fix", "resolve", "debug"},
        second |-> {"bug", "issue", "error", "problem"},
        task_type |-> "bug_fixing",
        capabilities |-> {"bug_fixing", "implementation"}],
       [first |-> {"test", "validate", "verify", "check"},
        second |-> {"code", "functionality", "feature", "implementation"},
        task_type |-> "testing",
        capabilities |-> {"testing", "qa", "validation"}],
       [first |-> {"research", "investigate", "find", "searchfor"},
        second |-> {"documentation", "library", "bestpractice", "solution"},
        task_type |-> "research",
        capabilities |-> {"research", "documentation", "best_practices"}],
       [first |-> {"deploy", "build", "setup", "configure"},
        second |-> {"application", "environment", "pipeline", "infrastructure"},
        task_type |-> "devops",
        capabilities |-> {"devops", "deployment", "environment"}] >>

\* LANGUAGE_PATTERNS: the languages a word names.
LANGUAGE_PATTERNS == {"python", "javascript", "typescript", "java", "go", "rust", "cpp"}

COMPLEXITY_HIGH ==
    {"refactor", "architecture", "system", "multiple", "complex", "scalable", "distributed",
     "migration"}

COMPLEXITY_MEDIUM == {"implement", "feature", "integration", "api", "module"}

\* task_description.lower()
task_lower(description) == [k \in DOMAIN description |-> lower(description[k])]

\* The keywords of a set that are substrings of the text.
keywords_in(text, keywords) == keywords \cap UNION {occurring_in(text[k]) : k \in DOMAIN text}

\* re.search(pattern, task_lower)
matches(pattern, text) ==
    \E k \in DOMAIN text :
        /\ k + 1 \in DOMAIN text
        /\ text[k] \in pattern.first
        /\ text[k + 1] \in pattern.second

\* _can_parallelize
can_parallelize(description, task_type) ==
    LET sequential_keywords == {"then", "after", "before", "first", "next", "finally", "step"}
        has_sequential == keywords_in(task_lower(description), sequential_keywords) # {}
    IN task_type \in {"research", "code_analysis", "testing"} /\ ~has_sequential

\* _estimate_subtasks: one more than the task markers in the text, times the
\* complexity multiplier 1, 1.5 or 2, truncated.
estimate_subtasks(description, complexity) ==
    LET task_markers == {"and", ",", ";", "then", "also", "plus"}
        text == task_lower(description)
        count == 1 + Cardinality({k \in DOMAIN text : occurring_in(text[k]) \cap task_markers # {}})
        scaled == CASE complexity = "simple" -> count
                    [] complexity = "medium" -> (3 * count) \div 2
                    [] complexity = "complex" -> 2 * count
    IN IF scaled > 1 THEN scaled ELSE 1

\* The words of a list that satisfy a condition, in order.
RECURSIVE select_words(_, _)
select_words(text, kept) ==
    IF text = << >> THEN << >>
    ELSE (IF Head(text) \in kept THEN << Head(text) >> ELSE << >>)
             \o select_words(Tail(text), kept)

\* _extract_keywords: the words longer than 3 letters that are not stop
\* words, the first 10 of them.
extract_keywords(description) ==
    LET stop_words == {"the", "a", "an", "and", "or", "but", "in", "on", "at", "to", "for",
                       "of", "with", "by", "from", "up", "about", "into", "through", "during"}
        short == {"fix", "bug", "and"}
    IN slice_to(select_words(task_lower(description), (Words \ short) \ stop_words), 10)

\* analyze_task reading the registry: the capabilities no agent declares
\* are left out.
analyze_task_for_registry(description) ==
    LET text == task_lower(description)
        matching == {k \in DOMAIN TASK_PATTERNS : matches(TASK_PATTERNS[k], text)}
        first == IF matching = {} THEN 0
                 ELSE CHOOSE k \in matching : \A j \in matching : k <= j
        task_type == IF first = 0 THEN "general" ELSE TASK_PATTERNS[first].task_type
        capabilities ==
            (IF first = 0 THEN {} ELSE TASK_PATTERNS[first].capabilities)
                \cup (LANGUAGE_PATTERNS \cap Range(text))
        declared == UNION {agents[name].capabilities : name \in DOMAIN agents}
        high_count == Cardinality(keywords_in(text, COMPLEXITY_HIGH))
        medium_count == Cardinality(keywords_in(text, COMPLEXITY_MEDIUM))
        complexity == IF high_count >= 2 THEN "complex"
                      ELSE IF high_count >= 1 \/ medium_count >= 2 THEN "medium"
                      ELSE "simple"
    IN TaskAnalysis(task_type, capabilities \cap declared, complexity,
                    can_parallelize(description, task_type),
                    estimate_subtasks(description, complexity),
                    extract_keywords(description))

\* analyze_task: the first pattern that matches gives the type and its
\* capabilities, the languages named are added (required_capabilities is
\* list(set(...)): its order is not modelled), then the complexity from the
\* keyword counts.
analyze_task(description) ==
    LET text == task_lower(description)
        matching == {k \in DOMAIN TASK_PATTERNS : matches(TASK_PATTERNS[k], text)}
        first == IF matching = {} THEN 0
                 ELSE CHOOSE k \in matching : \A j \in matching : k <= j
        task_type == IF first = 0 THEN "general" ELSE TASK_PATTERNS[first].task_type
        capabilities ==
            (IF first = 0 THEN {} ELSE TASK_PATTERNS[first].capabilities)
                \cup (LANGUAGE_PATTERNS \cap Range(text))
        high_count == Cardinality(keywords_in(text, COMPLEXITY_HIGH))
        medium_count == Cardinality(keywords_in(text, COMPLEXITY_MEDIUM))
        complexity == IF high_count >= 2 THEN "complex"
                      ELSE IF high_count >= 1 \/ medium_count >= 2 THEN "medium"
                      ELSE "simple"
    IN TaskAnalysis(task_type, capabilities, complexity,
                    can_parallelize(description, task_type),
                    estimate_subtasks(description, complexity),
                    extract_keywords(description))

\* A call of analyze_task.  The calls after the first repeat its text.
AnalyzeTask ==
    /\ analyses < MaxAnalyses
    /\ \E description \in SeqsUpTo(Words, MaxWords) :
        /\ analyses > 0 => description = task_description
        /\ task_description' = description
        /\ task_analysis' = analyze_task(description)
    /\ earlier_analysis' = task_analysis
    /\ analyses' = analyses + 1
    /\ UNCHANGED << agent_order, analysis, max_agents, assignments, router_pc, excluded,
                    best_agent >>
    /\ UNCHANGED << workflowVars, registryVars, dispatchVars >>

\* An agent registered between two calls.
RegisterAgent ==
    /\ \E name \in {"code_writer"} \ DOMAIN agents, c \in ScoringCapabilities :
        /\ agents' = [n \in DOMAIN agents \cup {name} |->
                          IF n = name THEN Agent(c, "novice", NewMetrics) ELSE agents[n]]
        /\ agent_order' = Append(agent_order, name)
        /\ initial_level' = [n \in DOMAIN agents' |-> agents'[n].skill_level]
        /\ duration_sum' = [n \in DOMAIN agents' |-> IF n = name THEN 0 ELSE duration_sum[n]]
    /\ registry_file' = agents'
    /\ UNCHANGED << workload, writers, dispatchVars, analysis, max_agents, assignments, router_pc,
                    excluded, best_agent, classifierVars >>
    /\ UNCHANGED workflowVars

\* An empty registry that agents are added to and record tasks in, and a
\* description analysed again and again.
InitClassifier ==
    /\ NoWorkflow
    /\ agents = << >>
    /\ registry_file = << >>
    /\ workload = [tasks |-> 1, durations |-> {1}]
    /\ initial_level = << >>
    /\ duration_sum = << >>
    /\ NoWriters
    /\ NoDispatch
    /\ agent_order = << >>
    /\ analysis = [task_type |-> "general", complexity |-> "simple",
                   required_capabilities |-> {}]
    /\ max_agents = 0
    /\ assignments = << >>
    /\ router_pc = "none"
    /\ excluded = {}
    /\ best_agent = "None"
    /\ NoClassifier

NextClassifier ==
    \/ AnalyzeTask
    \/ RegisterAgent
    \/ UpdateMetrics

SpecClassifier == InitClassifier /\ [][NextClassifier]_vars

-----------------------------------------------------------------------------
(* Orchestrator.execute_task (agents/orchestrator.py): dispatch of a task to
   its assigned agents.  Several execute_task coroutines run on one event
   loop; control changes hands only at an await. *)

\* The agents _find_supporting_agents can add, in the order it adds them.
SupportingAgents == << "tester", "researcher", "code_analyst" >>

\* An invocation of _execute_single_agent has returned or raised.
Finished(status) == status \in {"success", "failure", "exception"}

\* Mutant: the wait for the supporting agents ends with the first of them.
gather_returns_on_first(statuses) ==
    \E k \in DOMAIN statuses : Finished(statuses[k])

\* `await asyncio.gather(*tasks, return_exceptions=True)` returns when every
\* task has finished.
gather_returns(statuses) ==
    \A k \in DOMAIN statuses : Finished(statuses[k])

\* The results of the invocations that returned, in list order (an exception
\* collected by gather goes to results['errors'] only).
RECURSIVE ResultsOf(_, _, _)
ResultsOf(names, statuses, k) ==
    IF k > Len(names) THEN << >>
    ELSE IF statuses[k] \in {"success", "failure"}
         THEN << [agent |-> names[k], success |-> statuses[k] = "success"] >>
              \o ResultsOf(names, statuses, k + 1)
         ELSE ResultsOf(names, statuses, k + 1)

\* results['success'] = all(r.get('success', False) for r in primary_results)
primary_success(primary_results) ==
    \A k \in DOMAIN primary_results : primary_results[k].success

\* The event loop is inside the synchronous part of some execute_task
\* (from the return of _execute_with_agents to the end of _record_outcomes).
InRecordOutcomes == \E t \in DOMAIN dispatches : dispatches[t].phase = "recording"

DispatchUnchanged ==
    /\ UNCHANGED workflowVars
    /\ UNCHANGED << workload, initial_level, writers, project_path, routerVars >>

\* agent_workspace of _execute_single_agent: the context's project_path if it
\* has one, else workspace_dir / agent.name / task_id.
agent_workspace(t, name) ==
    IF project_path[t] THEN << "project" >> ELSE << "workspace", name, t >>

\* `prompt_file.write_text(prompt)`: prompt.txt of the workspace holds the
\* prompt generated for this agent and task.
write_prompt(fs, workspace, t, name) ==
    [w \in DOMAIN fs \cup {workspace} |-> IF w = workspace THEN << name, t >> ELSE fs[w]]

\* An invocation of _execute_single_agent reaches its first await.
StartInvocation ==
    /\ ~InRecordOutcomes
    /\ \E t \in DOMAIN dispatches :
        LET d == dispatches[t] IN
        /\ d.phase = "executing"
        /\ \/ \E k \in DOMAIN d.primary :
                /\ d.primary_status[k] = "pending"
                /\ \A j \in 1..(k - 1) : Finished(d.primary_status[j])
                /\ dispatches' = [dispatches EXCEPT ![t].primary_status[k] = "running"]
                /\ prompt_file' = write_prompt(prompt_file, agent_workspace(t, d.primary[k]),
                                               t, d.primary[k])
           \/ \E k \in DOMAIN d.supporting :
                /\ \A j \in DOMAIN d.primary : Finished(d.primary_status[j])
                /\ d.supporting_status[k] = "pending"
                /\ d.can_parallelize
                   \/ \A j \in 1..(k - 1) : Finished(d.supporting_status[j])
                /\ dispatches' = [dispatches EXCEPT ![t].supporting_status[k] = "running"]
                /\ prompt_file' = write_prompt(prompt_file,
                                               agent_workspace(t, d.supporting[k]),
                                               t, d.supporting[k])
    /\ UNCHANGED << agents, registry_file, duration_sum >>
    /\ DispatchUnchanged

\* An invocation returns its result or raises.  An exception raised in a
\* directly awaited invocation leaves execute_task; one raised under gather is
\* collected.
FinishInvocation ==
    /\ ~InRecordOutcomes
    /\ \E t \in DOMAIN dispatches, outcome \in {"success", "failure", "exception"} :
        LET d == dispatches[t] IN
        /\ d.phase = "executing"
        /\ \/ \E k \in DOMAIN d.primary :
                /\ d.primary_status[k] = "running"
                /\ dispatches' = [dispatches EXCEPT
                       ![t].primary_status[k] = outcome,
                       ![t].phase = IF outcome = "exception" THEN "raised" ELSE @]
           \/ \E k \in DOMAIN d.supporting :
                /\ d.supporting_status[k] = "running"
                /\ dispatches' = [dispatches EXCEPT
                       ![t].supporting_status[k] = outcome,
                       ![t].phase = IF outcome = "exception" /\ ~d.can_parallelize
                                    THEN "raised" ELSE @]
    /\ UNCHANGED << agents, registry_file, duration_sum >>
    /\ UNCHANGED prompt_file
    /\ DispatchUnchanged

\* _execute_with_agents returns: every primary invocation has returned and the
\* supporting ones have been waited for; execute_task goes on to
\* _record_outcomes without an await.
ExecuteReturn ==
    /\ ~InRecordOutcomes
    /\ \E t \in DOMAIN dispatches :
        LET d == dispatches[t]
            primary_results == ResultsOf(d.primary, d.primary_status, 1)
            supporting_results == ResultsOf(d.supporting, d.supporting_status, 1)
        IN /\ d.phase = "executing"
           /\ \A k \in DOMAIN d.primary : Finished(d.primary_status[k])
           /\ IF d.can_parallelize
              THEN gather_returns(d.supporting_status)
              ELSE \A k \in DOMAIN d.supporting : Finished(d.supporting_status[k])
           /\ dispatches' = [dispatches EXCEPT
                  ![t].phase = "recording",
                  ![t].all_results = primary_results \o supporting_results,
                  ![t].success = primary_success(primary_results)]
    /\ UNCHANGED << agents, registry_file, duration_sum >>
    /\ UNCHANGED prompt_file
    /\ DispatchUnchanged

\* One pass of the loop of _record_outcomes: update_metrics for the next
\* result, saved by save_registry; after the last one execute_task returns.
RecordOutcome ==
    /\ \E t \in DOMAIN dispatches, duration \in workload.durations :
        LET d == dispatches[t] IN
        /\ d.phase = "recording"
        /\ IF d.recorded < Len(d.all_results)
           THEN LET r == d.all_results[d.recorded + 1] IN
                /\ agents' = [agents EXCEPT ![r.agent] = update_metrics(@, r.success, duration)]
                /\ registry_file' = agents'
                /\ duration_sum' = [duration_sum EXCEPT ![r.agent] = @ + duration]
                /\ dispatches' = [dispatches EXCEPT ![t].recorded = @ + 1]
           ELSE /\ dispatches' = [dispatches EXCEPT ![t].phase = "done"]
                /\ UNCHANGED << agents, registry_file, duration_sum >>
    /\ UNCHANGED prompt_file
    /\ DispatchUnchanged

\* An execute_task call past select_agents, with a non-empty assignment list.
Dispatch(primary, supporting, parallelize) ==
    [primary |-> primary, supporting |-> supporting, can_parallelize |-> parallelize,
     primary_status |-> [k \in DOMAIN primary |-> "pending"],
     supporting_status |-> [k \in DOMAIN supporting |-> "pending"],
     phase |-> "executing", all_results |-> << >>, recorded |-> 0, success |-> FALSE]

Dispatches ==
    {Dispatch(primary, SubSeq(SupportingAgents, 1, n), parallelize) :
        primary \in {<< >>, << "code_writer" >>},
        n \in 0..Min(MaxSupporting, Len(SupportingAgents)),
        parallelize \in BOOLEAN}

InitDispatch ==
    /\ NoWorkflow
    /\ agents = [name \in {"code_writer"} \cup Range(SupportingAgents) |-> NewAgent("novice")]
    /\ registry_file = agents
    /\ workload = [tasks |-> MaxDispatches, durations |-> {1}]
    /\ initial_level = [name \in DOMAIN agents |-> "novice"]
    /\ duration_sum = [name \in DOMAIN agents |-> 0]
    /\ NoWriters
    /\ NoRouter
    /\ \E n \in 1..MaxDispatches : dispatches \in [1..n -> Dispatches]
    /\ \A t \in DOMAIN dispatches :
          Len(dispatches[t].primary) + Len(dispatches[t].supporting) > 0
    /\ project_path = [t \in DOMAIN dispatches |-> FALSE]
    /\ prompt_file = << >>

NextDispatch ==
    \/ StartInvocation
    \/ FinishInvocation
    \/ ExecuteReturn
    \/ RecordOutcome

SpecDispatch == InitDispatch /\ [][NextDispatch]_vars

\* One execute_task call, with or without a project_path in its context.
InitWorkspace ==
    /\ NoWorkflow
    /\ agents = [name \in {"code_writer"} \cup Range(SupportingAgents) |-> NewAgent("novice")]
    /\ registry_file = agents
    /\ workload = [tasks |-> 1, durations |-> {1}]
    /\ initial_level = [name \in DOMAIN agents |-> "novice"]
    /\ duration_sum = [name \in DOMAIN agents |-> 0]
    /\ NoWriters
    /\ NoRouter
    /\ dispatches \in [1..1 -> Dispatches]
    /\ Len(dispatches[1].primary) + Len(dispatches[1].supporting) > 0
    /\ project_path \in [1..1 -> BOOLEAN]
    /\ prompt_file = << >>

SpecWorkspace == InitWorkspace /\ [][NextDispatch]_vars

-----------------------------------------------------------------------------
(* A free caller of the WorkflowHistory API (specification SpecHistory) *)

\* The outputs a step can declare.
StepOutputs == SeqsUpTo({"report", "code"}, MaxOutputs)

StepIds == 1..MaxSteps

EngineUnchanged ==
    UNCHANGED << engine, execution_mode, skip_optional_steps, steps, quality_gates,
                 pc, i, step_iterations, completed_steps, failed_steps, step_success,
                 success, aborted, invocations, fail_calls, approvals,
                 depends_on, step_has_name, step_outputs, storeVars, validationVars,
                 registryVars, dispatchVars, routerVars >>

ApiCall(name, h) ==
    /\ engine = "api"
    /\ calls < MaxCalls
    /\ calls' = calls + 1
    /\ last_call' = name
    /\ history' = h
    /\ SaveExecution
    /\ EngineUnchanged

ApiStartExecution ==
    /\ history = NoExecution
    /\ ApiCall("start_execution", start_execution)

ApiStartStep == \E id \in StepIds : ApiCall("start_step", start_step(history, id))

ApiCompleteStep ==
    \E id \in StepIds, outputs \in StepOutputs :
        ApiCall("complete_step", complete_step(history, id, outputs))

ApiFailStep == \E id \in StepIds : ApiCall("fail_step", fail_step(history, id))

ApiSkipStep == \E id \in StepIds : ApiCall("skip_step", skip_step(history, id))

ApiRecordQualityGate ==
    \E g \in 1..MaxGates, passed \in BOOLEAN :
        /\ Len(history.quality_gates_passed) + Len(history.quality_gates_failed) < MaxGates
        /\ ApiCall("record_quality_gate", record_quality_gate(history, g, passed))

ApiRecordUserIntervention ==
    ApiCall("record_user_intervention", record_user_intervention(history))

ApiCompleteExecution ==
    \E ok \in BOOLEAN : ApiCall("complete_execution", complete_execution(history, ok))

EmptyPerStep == [s \in {} |-> 0]

InitHistory ==
    /\ engine = "api"
    /\ execution_mode = "independent"
    /\ skip_optional_steps = FALSE
    /\ steps = << >>
    /\ quality_gates = << >>
    /\ history = NoExecution
    /\ pc = "api"
    /\ i = 1
    /\ step_iterations = EmptyPerStep
    /\ completed_steps = 0
    /\ failed_steps = 0
    /\ step_success = FALSE
    /\ success = "none"
    /\ aborted = FALSE
    /\ invocations = EmptyPerStep
    /\ fail_calls = EmptyPerStep
    /\ approvals = EmptyPerStep
    /\ calls = 0
    /\ last_call = "none"
    /\ depends_on = EmptyPerStep
    /\ step_has_name = EmptyPerStep
    /\ step_outputs = EmptyPerStep
    /\ history_dir = << >>
    /\ NoStore
    /\ validation = EmptyPerStep
    /\ project_workspace = FALSE
    /\ produced = EmptyPerStep
    /\ validation_passed = EmptyPerStep
    /\ NoRegistry

NextHistory ==
    \/ ApiStartExecution
    \/ ApiStartStep
    \/ ApiCompleteStep
    \/ ApiFailStep
    \/ ApiSkipStep
    \/ ApiRecordQualityGate
    \/ ApiRecordUserIntervention
    \/ ApiCompleteExecution

SpecHistory == InitHistory /\ [][NextHistory]_vars

\* complete_execution when the write in _save_execution raises (a workflow name
\* with a path separator, a full or missing directory): the except clause
\* prints the error, nothing is written, and complete_execution goes on to
\* `del self.current_executions[execution_id]`.
ApiCompleteExecutionUnwritten ==
    /\ engine = "api"
    /\ calls < MaxCalls
    /\ calls' = calls + 1
    /\ last_call' = "complete_execution"
    /\ \E ok \in BOOLEAN : history' = complete_execution(history, ok)
    /\ UNCHANGED history_dir
    /\ EngineUnchanged

NextStorage ==
    \/ NextHistory
    \/ ApiCompleteExecutionUnwritten

\* The history API on a directory whose writes can fail.
SpecStorage == InitHistory /\ [][NextStorage]_vars

-----------------------------------------------------------------------------
(* Workflow templates *)

Step == [required : BOOLEAN, max_retries : 0..MaxRetries]

Gate(n) == [after_step : 1..n, required : BOOLEAN, type : {"manual", "automatic"}]

PerStep(v) == [s \in 1..Len(steps) |-> v]

-----------------------------------------------------------------------------
(* Decisions shared by the two engines *)

\* Mutant: the strict verdict, without the partial-success leniency.
overall_success_strict(failed, completed, total) ==
    failed = 0

\* success = failed_steps == 0 or (completed_steps > 0 and failed_steps < len(steps))
overall_success(failed, completed, total) ==
    failed = 0 \/ (completed > 0 /\ failed < total)

\* Mutant: any failed step stops the workflow.
stop_workflow_on_any_failure(ok, required) == ~ok

\* Mutant: no failed step stops the workflow.
stop_workflow_never(ok, required) == FALSE

\* `if required: break` after a failed step (executor),
\* `if not step_success and required: break` (orchestrator).
stop_workflow(ok, required) == ~ok /\ required

\* End of one iteration of the step loop: `break`, or on to the next step.
LeaveStep(brk) ==
    /\ aborted' = brk
    /\ i' = IF brk THEN i ELSE i + 1
    /\ pc' = IF brk \/ i + 1 > Len(steps) THEN "finish" ELSE "loop"

InputsUnchanged ==
    UNCHANGED << engine, execution_mode, skip_optional_steps, steps, quality_gates, calls,
                 last_call, depends_on, step_has_name, step_outputs, storeVars, validation,
                 project_workspace, registryVars, dispatchVars, routerVars >>

\* No agent is invoked.
NothingProduced == UNCHANGED << produced, validation_passed >>

\* The rule types of a step's validation list; every rule is about the file
\* "report".
RuleTypes == {"output_exists", "min_lines"}

\* What an invocation leaves: whether "report" is among the files it created,
\* whether the file exists in the project workspace, and whether it has the
\* lines a min_lines rule asks for.
Artifact == {a \in [created : BOOLEAN, exists : BOOLEAN, long : BOOLEAN] : a.long => a.exists}

NoArtifact == [created |-> FALSE, exists |-> FALSE, long |-> FALSE]

\* The artifacts told apart for a step: nothing reads them without rules.
Artifacts(rules) == IF rules = {} THEN {NoArtifact} ELSE Artifact

\* _validate_step_outputs: validation['passed'].  `actual_outputs` is given
\* by whether it lists "report", `workspace_path` by whether there is one.
validate_step_outputs(rules, actual_outputs, workspace_path, artifact) ==
    LET errors ==
            {rule \in rules :
                \/ /\ rule = "output_exists"
                   /\ ~actual_outputs \/ (workspace_path /\ ~artifact.exists)
                \/ /\ rule = "min_lines"
                   /\ workspace_path
                   /\ ~artifact.exists \/ ~artifact.long}
    IN errors = {}

\* `if validation and project_workspace: ... else: step_validation_passed = True`
step_validation_passed(rules, workspace, artifact) ==
    IF rules # {} /\ workspace
    THEN validate_step_outputs(rules, artifact.created, TRUE, artifact)
    ELSE TRUE

\* Mutant: a step with a dependency that has not completed is passed over.
depends_on_blocks_unmet(deps, h) ==
    \E d \in deps : FindStep(h, d) = 0 \/ h.steps[FindStep(h, d)].status # "completed"

\* What depends_on does to a step: execute_workflow only prints it,
\* _execute_with_workflow never reads it; it never keeps a step from starting.
depends_on_blocks(deps, h) == FALSE

\* The step loop ends by an uncaught KeyError (step['name'] of a step without a
\* name, read outside any try): nothing after the loop runs.
Crash ==
    /\ pc' = "crashed"
    /\ UNCHANGED << history, i, aborted >>

-----------------------------------------------------------------------------
(* WorkflowExecutor.execute_workflow *)

\* _check_quality_gate: a manual gate passes when the user answers 'y',
\* an automatic gate always passes.
check_quality_gate(gate, answer) ==
    IF gate.type = "manual" THEN answer ELSE TRUE

\* The gate loop run after step `step_id`: every gate with after_step == step_id
\* is checked and recorded in order; a failing required gate ends this loop
\* (the `break` is inside `for gate in quality_gates`).
RECURSIVE check_gates(_, _, _, _)
check_gates(h, step_id, k, answers) ==
    IF k > Len(quality_gates) THEN h
    ELSE LET gate == quality_gates[k] IN
         IF gate.after_step = step_id
         THEN LET gate_passed == check_quality_gate(gate, answers[k])
                  h1 == record_quality_gate(h, k, gate_passed)
              IN IF ~gate_passed /\ gate.required
                 THEN h1
                 ELSE check_gates(h1, step_id, k + 1, answers)
         ELSE check_gates(h, step_id, k + 1, answers)

ExecutorStart ==
    /\ engine = "executor"
    /\ pc = "start"
    /\ history' = start_execution
    /\ pc' = IF Len(steps) = 0 THEN "finish" ELSE "loop"
    /\ UNCHANGED << i, step_iterations, completed_steps, failed_steps, step_success,
                    success, aborted, invocations, fail_calls, approvals >>
    /\ NothingProduced
    /\ InputsUnchanged
    /\ SaveExecution

\* One iteration of the step loop: start_step, the (simulated) execution, then
\* complete_step or fail_step, then the quality gates of this step.
ExecutorStep ==
    /\ engine = "executor"
    /\ pc = "loop"
    /\ IF ~step_has_name[i]
       THEN /\ Crash
            /\ UNCHANGED << completed_steps, failed_steps, invocations, fail_calls,
                            step_success, produced, validation_passed >>
       ELSE IF depends_on_blocks(depends_on[i], history)
       THEN /\ history' = history
            /\ LeaveStep(FALSE)
            /\ UNCHANGED << completed_steps, failed_steps, invocations, fail_calls,
                            step_success, produced, validation_passed >>
       ELSE
        \E outcome \in {"success", "failure", "exception"},
           answers \in [1..Len(quality_gates) -> BOOLEAN],
           artifact \in Artifacts(validation[i]) :
        LET required == steps[i].required
            \* result.get('outputs', []) is the step's declared list
            passed == validate_step_outputs(validation[i], "report" \in Range(step_outputs[i]),
                                            FALSE, artifact)
            h1 == start_step(history, i)
            ok == outcome = "success"
            h2 == IF ok THEN complete_step(h1, i, step_outputs[i]) ELSE fail_step(h1, i)
            brk == stop_workflow(ok, required)
        IN /\ history' = IF brk THEN h2 ELSE check_gates(h2, i, 1, answers)
           /\ completed_steps' = IF ok THEN completed_steps + 1 ELSE completed_steps
           /\ failed_steps' = IF ok THEN failed_steps ELSE failed_steps + 1
           /\ invocations' = [invocations EXCEPT ![i] = @ + 1]
           /\ fail_calls' = [fail_calls EXCEPT ![i] = IF ok THEN @ ELSE @ + 1]
           /\ step_success' = ok
           /\ produced' = IF ok THEN [produced EXCEPT ![i] = artifact] ELSE produced
           /\ validation_passed' = IF ok THEN [validation_passed EXCEPT ![i] = passed]
                                   ELSE validation_passed
           /\ LeaveStep(brk)
    /\ UNCHANGED << step_iterations, success, approvals >>
    /\ InputsUnchanged
    /\ SaveExecution

-----------------------------------------------------------------------------
(* WorkflowOrchestrator._execute_with_workflow *)

\* _present_plan: auto-approved in independent mode, else the user's answer
\* ("modify" proceeds with the plan).
present_plan(mode, response) ==
    IF mode = "independent" THEN TRUE ELSE response \in {"yes", "modify"}

\* Mutant: the user is asked in every mode.
ask_step_approval_in_every_mode(mode, required, response) ==
    IF response = "yes" THEN "True"
    ELSE IF response = "no" THEN "False"
    ELSE IF ~required THEN "None" ELSE "reprompt"

\* _ask_step_approval: "True", "False" or "None" (skip); "reprompt" stands for
\* the input loop asking again (skip of a required step).
ask_step_approval(mode, required, response) ==
    IF mode # "interactive" THEN "True"
    ELSE IF response = "yes" THEN "True"
    ELSE IF response = "no" THEN "False"
    ELSE IF ~required THEN "None" ELSE "reprompt"

\* `if not required and context and context.get('skip_optional_steps')`
skip_by_directive(required, directive) == ~required /\ directive

\* Mutant: off by one, the last retry is never made.
retry_loop_guard_strict(iterations, max_retries) == iterations < max_retries

\* `while step_iterations[step_id] <= max_retries`
retry_loop_guard(iterations, max_retries) == iterations <= max_retries

\* `if step_iterations[step_id] > max_retries` (no more retries)
retries_exhausted(iterations, max_retries) == iterations > max_retries

OrchestratorStart ==
    /\ engine = "orchestrator"
    /\ pc = "start"
    /\ \E response \in {"yes", "no", "modify"} :
        IF present_plan(execution_mode, response)
        THEN /\ history' = start_execution
             /\ pc' = IF Len(steps) = 0 THEN "finish" ELSE "loop"
             /\ success' = success
        ELSE /\ history' = history
             /\ pc' = "rejected"
             /\ success' = FALSE
    /\ UNCHANGED << i, step_iterations, completed_steps, failed_steps, step_success,
                    aborted, invocations, fail_calls, approvals >>
    /\ NothingProduced
    /\ InputsUnchanged
    /\ SaveExecution

\* Head of one iteration of the step loop, up to the entry of the retry loop:
\* the skip directive, the step approval, start_step and the registry lookup.
OrchestratorBeginStep ==
    /\ engine = "orchestrator"
    /\ pc = "loop"
    /\ \E response \in {"yes", "no", "skip"}, agent_found \in BOOLEAN :
        LET required == steps[i].required
            max_retries == steps[i].max_retries
            step_approval == ask_step_approval(execution_mode, required, response)
            h1 == start_step(history, i)
        IN IF ~step_has_name[i]
           THEN /\ Crash
                /\ UNCHANGED << failed_steps, step_success, fail_calls, approvals >>
           ELSE IF skip_by_directive(required, skip_optional_steps)
           THEN /\ history' = skip_step(history, i)
                /\ LeaveStep(FALSE)
                /\ UNCHANGED << failed_steps, step_success, fail_calls, approvals >>
           ELSE IF depends_on_blocks(depends_on[i], history)
           THEN /\ history' = history
                /\ LeaveStep(FALSE)
                /\ UNCHANGED << failed_steps, step_success, fail_calls, approvals >>
           ELSE /\ step_approval # "reprompt"
                /\ approvals' = [approvals EXCEPT ![i] = step_approval]
                /\ IF step_approval = "None"
                   THEN /\ history' = skip_step(history, i)
                        /\ LeaveStep(FALSE)
                        /\ UNCHANGED << failed_steps, step_success, fail_calls >>
                   ELSE IF step_approval = "False"
                   THEN /\ history' = history
                        /\ failed_steps' = failed_steps + 1
                        /\ LeaveStep(TRUE)
                        /\ UNCHANGED << step_success, fail_calls >>
                   ELSE IF ~agent_found
                   THEN /\ history' = fail_step(h1, i)
                        /\ failed_steps' = failed_steps + 1
                        /\ fail_calls' = [fail_calls EXCEPT ![i] = @ + 1]
                        /\ LeaveStep(required)
                        /\ UNCHANGED step_success
                   ELSE /\ history' = h1
                        /\ step_success' = FALSE
                        /\ IF retry_loop_guard(step_iterations[i], max_retries)
                           THEN /\ pc' = "retry"
                                /\ UNCHANGED << i, aborted >>
                           ELSE LeaveStep(stop_workflow(FALSE, required))
                        /\ UNCHANGED << failed_steps, fail_calls >>
    /\ UNCHANGED << step_iterations, completed_steps, success, invocations >>
    /\ NothingProduced
    /\ InputsUnchanged
    /\ SaveExecution

\* One pass of the retry loop: one agent invocation and what follows it.
OrchestratorAttempt ==
    /\ engine = "orchestrator"
    /\ pc = "retry"
    /\ \E outcome \in {"validated", "validation_failed", "execution_failed", "exception"},
          artifact \in Artifacts(validation[i]) :
        LET required == steps[i].required
            max_retries == steps[i].max_retries
            iterations == step_iterations[i] + 1
            passed == step_validation_passed(validation[i], project_workspace, artifact)
        IN /\ outcome = "validated" => passed
           /\ outcome = "validation_failed" => ~passed
           /\ invocations' = [invocations EXCEPT ![i] = @ + 1]
           /\ produced' = IF outcome \in {"validated", "validation_failed"}
                          THEN [produced EXCEPT ![i] = artifact] ELSE produced
           /\ validation_passed' = IF outcome = "validated"
                                   THEN [validation_passed EXCEPT ![i] = TRUE]
                                   ELSE validation_passed
           /\ IF outcome = "validated"
              THEN /\ history' = complete_step(history, i, step_outputs[i])
                   /\ completed_steps' = completed_steps + 1
                   /\ step_success' = TRUE
                   /\ LeaveStep(stop_workflow(TRUE, required))
                   /\ UNCHANGED << step_iterations, failed_steps, fail_calls >>
              ELSE /\ step_iterations' = [step_iterations EXCEPT ![i] = iterations]
                   /\ UNCHANGED << completed_steps, step_success >>
                   /\ IF retries_exhausted(iterations, max_retries)
                      THEN /\ history' = fail_step(history, i)
                           /\ failed_steps' = failed_steps + 1
                           /\ fail_calls' = [fail_calls EXCEPT ![i] = @ + 1]
                           /\ LeaveStep(stop_workflow(step_success, required))
                      ELSE /\ UNCHANGED << history, failed_steps, fail_calls >>
                           /\ IF retry_loop_guard(iterations, max_retries)
                              THEN UNCHANGED << pc, i, aborted >>
                              ELSE LeaveStep(stop_workflow(step_success, required))
    /\ UNCHANGED << success, approvals >>
    /\ InputsUnchanged
    /\ SaveExecution

-----------------------------------------------------------------------------
(* End of a run, in both engines *)

\* `success = ...; complete_execution(exec_id, success=success)` and the return.
Finish ==
    /\ pc = "finish"
    /\ LET ok == overall_success(failed_steps, completed_steps, Len(steps))
       IN /\ success' = ok
          /\ history' = complete_execution(history, ok)
    /\ pc' = "done"
    /\ UNCHANGED << i, step_iterations, completed_steps, failed_steps, step_success,
                    aborted, invocations, fail_calls, approvals >>
    /\ NothingProduced
    /\ InputsUnchanged
    /\ SaveExecution

\* A template is read as it is written: step.get('max_retries', 0) is any integer
\* the file holds, and nothing on the way to the engines checks its sign.
UncheckedStep == [required : BOOLEAN, max_retries : -1..1]

InitRunWith(templates) ==
    /\ engine \in {"executor", "orchestrator"}
    /\ steps \in SeqsUpTo(templates, MaxSteps)
    /\ IF engine = "executor"
       THEN \* execute_workflow reads neither max_retries nor the mode nor the context
            /\ \A s \in 1..Len(steps) : steps[s].max_retries = 0
            /\ execution_mode = "independent"
            /\ skip_optional_steps = FALSE
            /\ quality_gates \in SeqsUpTo(Gate(Len(steps)), MaxGates)
       ELSE \* _execute_with_workflow never reads quality_gates
            /\ execution_mode \in {"independent", "interactive"}
            /\ skip_optional_steps \in BOOLEAN
            /\ quality_gates = << >>
    /\ history = NoExecution
    /\ history_dir = << >>
    /\ NoStore
    /\ pc = "start"
    /\ i = 1
    /\ step_iterations = PerStep(0)
    /\ completed_steps = 0
    /\ failed_steps = 0
    /\ step_success = FALSE
    /\ success = "none"
    /\ aborted = FALSE
    /\ invocations = PerStep(0)
    /\ fail_calls = PerStep(0)
    /\ approvals = PerStep("none")
    /\ produced = PerStep(NoArtifact)
    /\ validation_passed = PerStep(TRUE)
    /\ calls = 0
    /\ last_call = "none"
    /\ NoRegistry

InitRun == InitRunWith(Step)

\* No step declares validation rules and the context names no project.
NoValidation ==
    /\ validation = PerStep({})
    /\ project_workspace = FALSE

\* Templates whose steps all have a name and declare no dependency, no output
\* and no validation.
Init ==
    /\ InitRun
    /\ depends_on = PerStep({})
    /\ step_has_name = PerStep(TRUE)
    /\ step_outputs = PerStep(<< >>)
    /\ NoValidation

Next ==
    \/ ExecutorStart
    \/ ExecutorStep
    \/ OrchestratorStart
    \/ OrchestratorBeginStep
    \/ OrchestratorAttempt
    \/ Finish

Spec == Init /\ [][Next]_vars

\* The depends_on lists a template can carry: ids of other steps of the
\* template, earlier or later in the list.
DependsOn(n) ==
    LET entries == {e \in (1..n) \X (1..n) : e[1] # e[2]}
    IN {[s \in 1..n |-> {d \in 1..n : << s, d >> \in declared}] :
           declared \in {e \in SUBSET entries : Cardinality(e) <= MaxDeps}}

\* Templates with dependencies (single attempts, no gates).
InitDeps ==
    /\ InitRun
    /\ \A s \in 1..Len(steps) : steps[s].max_retries = 0
    /\ quality_gates = << >>
    /\ depends_on \in DependsOn(Len(steps))
    /\ step_has_name = PerStep(TRUE)
    /\ step_outputs = PerStep(<< >>)
    /\ NoValidation

SpecDeps == InitDeps /\ [][Next]_vars

\* Templates that pass validation (id, agent and action present in every
\* step) and whose steps may lack the optional name.
InitNames ==
    /\ InitRun
    /\ depends_on = PerStep({})
    /\ step_has_name \in [1..Len(steps) -> BOOLEAN]
    /\ step_outputs = PerStep(<< >>)
    /\ NoValidation

SpecNames == InitNames /\ [][Next]_vars

\* Templates whose steps declare outputs (single attempts).
InitOutputs ==
    /\ InitRun
    /\ \A s \in 1..Len(steps) : steps[s].max_retries = 0
    /\ depends_on = PerStep({})
    /\ step_has_name = PerStep(TRUE)
    /\ step_outputs \in [1..Len(steps) -> StepOutputs]
    /\ NoValidation

SpecOutputs == InitOutputs /\ [][Next]_vars

\* Templates whose steps declare both rules or none, and all or none the
\* output "report" (no gates, at most one retry, independent mode); the
\* executor has no workspace to validate in.
InitValidation ==
    /\ InitRun
    /\ \A s \in 1..Len(steps) : steps[s].max_retries <= 1
    /\ execution_mode = "independent"
    /\ skip_optional_steps = FALSE
    /\ quality_gates = << >>
    /\ depends_on = PerStep({})
    /\ step_has_name = PerStep(TRUE)
    /\ step_outputs \in {PerStep(<< >>), PerStep(<< "report" >>)}
    /\ validation \in [1..Len(steps) -> {{}, RuleTypes}]
    /\ project_workspace \in (IF engine = "executor" THEN {FALSE} ELSE BOOLEAN)

SpecValidation == InitValidation /\ [][Next]_vars

\* Templates as above whose max_retries is whatever the file holds.
InitUnchecked ==
    /\ InitRunWith(UncheckedStep)
    /\ depends_on = PerStep({})
    /\ step_has_name = PerStep(TRUE)
    /\ step_outputs = PerStep(<< >>)
    /\ NoValidation

SpecUnchecked == InitUnchecked /\ [][Next]_vars

-----------------------------------------------------------------------------
(* The template stores: WorkflowManager (system/workflow-cli.py),
   WorkflowLearner (system/workflow_learning.py) and select_best_workflow
   (system/workflow_executor.py).  A path is the list of its components; a
   workflow name is a path relative to the directory it is looked up in. *)

workflows_dir == << "workflows" >>

templates_dir == workflows_dir \o << "templates" >>

custom_dir == templates_dir \o << "custom" >>

learned_dir == workflows_dir \o << "learned" >>

\* The directories __init__ makes.
Directories == {workflows_dir, templates_dir, custom_dir, learned_dir}

\* dir / f"{name}.yaml" as the file system resolves it: ".." leaves the
\* directory reached so far.
RECURSIVE join(_, _)
join(dir, name) ==
    IF name = << >> THEN dir
    ELSE IF Head(name) = ".."
    THEN join(SubSeq(dir, 1, IF Len(dir) > 0 THEN Len(dir) - 1 ELSE 0), Tail(name))
    ELSE join(Append(dir, Head(name)), Tail(name))

parent(path) == SubSeq(path, 1, Len(path) - 1)

\* open(path, 'w') and yaml.dump: the file holds the document if its
\* directory exists; otherwise the error is caught and nothing is written.
write_file(fs, path, document) ==
    IF path # << >> /\ parent(path) \in Directories /\ path \notin Directories
    THEN [p \in DOMAIN fs \cup {path} |-> IF p = path THEN document ELSE fs[p]]
    ELSE fs

\* The names given to workflows, and the words of tasks and patterns.
WorkflowNames ==
    {<< "deploy" >>, << "..", "templates", "deploy" >>, << "..", "..", "learned", "deploy" >>}

TaskWords == {"deploy", "service"}

\* generate_workflow_template: what the stores and the matching read of it.
generate_workflow_template(keywords, name) ==
    [name |-> name, author |-> "learning-system", task_types |-> keywords,
     tags |-> {"auto-generated", "learned"},
     description |-> {"auto-generated", "workflow", "based", "on", "similar", "tasks"}]

\* save_learned_workflow
save_learned_workflow(fs, workflow) == write_file(fs, join(learned_dir, workflow.name), workflow)

\* create_workflow: the name is validated, the file goes to the custom store.
create_workflow(fs, name) ==
    IF Len(name) # 1 \/ name[1] = ".." \/ join(custom_dir, name) \in DOMAIN fs
          \/ join(templates_dir, name) \in DOMAIN fs
    THEN fs
    ELSE write_file(fs, join(custom_dir, name),
                    [name |-> name, author |-> "user", task_types |-> {}, tags |-> {},
                     description |-> {"custom", "workflow:", name[1]}])

\* list_workflows: the documents of the *.yaml files of the two template
\* directories (the order of the list is not modelled).
list_workflows(fs) ==
    {fs[p] : p \in {q \in DOMAIN fs : parent(q) \in {templates_dir, custom_dir}}}

\* _find_workflow_file and show_workflow: the custom store first, then the
\* templates; no workflow if neither has the file.
show_workflow(fs, name) ==
    IF join(custom_dir, name) \in DOMAIN fs THEN {fs[join(custom_dir, name)]}
    ELSE IF join(templates_dir, name) \in DOMAIN fs THEN {fs[join(templates_dir, name)]}
    ELSE {}

\* The score match_workflow gives a listed workflow for a task.
match_score(workflow, task) ==
    10 * Cardinality(workflow.task_types \cap task)
        + (IF Len(workflow.name) = 1 /\ workflow.name[1] \in task THEN 5 ELSE 0)
        + (IF workflow.description \cap task # {} THEN 2 ELSE 0)
        + 3 * Cardinality(workflow.tags \cap task)

\* match_workflow: the listed workflows with a positive score.
match_workflow(fs, task) == {w \in list_workflows(fs) : match_score(w, task) > 0}

\* select_best_workflow: show_workflow of the name of the first best match,
\* nothing without a match.  The results it can give: the order of the
\* listing among equal scores is the directory's.
select_best_workflow(fs, task) ==
    LET matched == match_workflow(fs, task)
        best == {w \in matched : \A v \in matched : match_score(v, task) <= match_score(w, task)}
    IN IF matched = {} THEN {{}} ELSE {show_workflow(fs, w.name) : w \in best}

StoreUnchanged ==
    UNCHANGED << engine, execution_mode, skip_optional_steps, steps, quality_gates, history,
                 pc, i, step_iterations, completed_steps, failed_steps, step_success,
                 success, aborted, invocations, fail_calls, approvals, calls, last_call,
                 depends_on, step_has_name, step_outputs, history_dir, validationVars,
                 statisticsVars, registryVars, dispatchVars, routerVars >>

SaveLearnedWorkflow ==
    /\ \E keywords \in SUBSET TaskWords, name \in WorkflowNames :
        files' = save_learned_workflow(files, generate_workflow_template(keywords, name))
    /\ store_call' = "save_learned_workflow"
    /\ UNCHANGED returned
    /\ StoreUnchanged

CreateWorkflow ==
    /\ \E name \in WorkflowNames : files' = create_workflow(files, name)
    /\ store_call' = "create_workflow"
    /\ UNCHANGED returned
    /\ StoreUnchanged

ListWorkflows ==
    /\ returned' = list_workflows(files)
    /\ store_call' = "list_workflows"
    /\ UNCHANGED files
    /\ StoreUnchanged

ShowWorkflow ==
    /\ \E name \in WorkflowNames : returned' = show_workflow(files, name)
    /\ store_call' = "show_workflow"
    /\ UNCHANGED files
    /\ StoreUnchanged

MatchWorkflow ==
    /\ \E task \in SUBSET TaskWords : returned' = match_workflow(files, task)
    /\ store_call' = "match_workflow"
    /\ UNCHANGED files
    /\ StoreUnchanged

SelectBestWorkflow ==
    /\ \E task \in SUBSET TaskWords : returned' \in select_best_workflow(files, task)
    /\ store_call' = "select_best_workflow"
    /\ UNCHANGED files
    /\ StoreUnchanged

\* Empty stores, and no run of a workflow.
InitStore ==
    /\ NoWorkflow
    /\ NoRegistry

NextStore ==
    \/ SaveLearnedWorkflow
    \/ CreateWorkflow
    \/ ListWorkflows
    \/ ShowWorkflow
    \/ MatchWorkflow
    \/ SelectBestWorkflow

SpecStore == InitStore /\ [][NextStore]_vars

-----------------------------------------------------------------------------
(* Statistics of the persisted executions (WorkflowHistory.get_workflow_statistics).
   A workflow name is the list of its words ("build-test" is << "build",
   "test" >>), a file name the list of the parts joined in _save_execution. *)

WorkflowTitles == {<< "build" >>, << "build", "test" >>, << "deploy" >>}

\* f"{date_str}_{execution.workflow_name}_{execution.execution_id}.json"
history_filename(date_str, workflow_name, execution_id) ==
    << date_str >> \o workflow_name \o << execution_id >>

\* `workflow_name in filepath.name`: the name occurs somewhere in the file name.
name_in(workflow_name, filename) ==
    \E start \in 1..(Len(filename) - Len(workflow_name) + 1) :
        SubSeq(filename, start, start + Len(workflow_name) - 1) = workflow_name

\* The positions, newest first, of the records get_execution_history(workflow_name)
\* loads: the first 100 files, those not passed over by the name test.
history_of(directory, workflow_name) ==
    LET newest == [k \in 1..Min(Len(directory), 100) |-> directory[Len(directory) + 1 - k]]
    IN {k \in DOMAIN newest :
           ~(workflow_name # << >> /\ ~name_in(workflow_name, newest[k].filename))}

\* get_workflow_statistics: the counts and rates it returns.
get_workflow_statistics(directory, workflow_name) ==
    LET n == Len(directory)
        loaded == {n + 1 - k : k \in history_of(directory, workflow_name)}
        total == Cardinality(loaded)
        completed == Cardinality({e \in loaded : directory[e].execution.status = "completed"})
        all_steps == {<< e, s >> : e \in loaded, s \in 1..MaxSteps} \cap
                     {<< e, s >> \in (1..n) \X (1..MaxSteps) :
                          s <= Len(directory[e].execution.steps)}
        step_ids == {directory[x[1]].execution.steps[x[2]].step_id : x \in all_steps}
        records(id) == {x \in all_steps : directory[x[1]].execution.steps[x[2]].step_id = id}
        done(id) == {x \in records(id) :
                        directory[x[1]].execution.steps[x[2]].status = "completed"}
    IN IF loaded = {}
       THEN [called |-> TRUE, workflow_name |-> workflow_name, total_executions |-> 0,
             completed |-> 0, success_rate |-> Zero, step_statistics |-> << >>]
       ELSE [called |-> TRUE, workflow_name |-> workflow_name, total_executions |-> total,
             completed |-> completed,
             success_rate |-> float_div(<< completed, 1 >>, << total, 1 >>),
             step_statistics |->
                 [id \in step_ids |->
                     [total_executions |-> Cardinality(records(id)),
                      completed |-> Cardinality(done(id)),
                      success_rate |-> float_div(<< Cardinality(done(id)), 1 >>,
                                                 << Cardinality(records(id)), 1 >>)]]]

HistoryFilesUnchanged ==
    UNCHANGED << engine, execution_mode, skip_optional_steps, steps, quality_gates, history,
                 pc, i, step_iterations, completed_steps, failed_steps, step_success,
                 success, aborted, invocations, fail_calls, approvals, calls, last_call,
                 depends_on, step_has_name, step_outputs, history_dir, validationVars,
                 files, returned, store_call, registryVars, dispatchVars, routerVars >>

StatisticsUnchanged ==
    /\ HistoryFilesUnchanged
    /\ UNCHANGED idVars

\* A finalised execution of some workflow is saved (complete_execution,
\* _save_execution): one more file in the directory.
PersistExecution ==
    /\ Len(history_files) < MaxFiles
    /\ \E workflow_name \in WorkflowTitles, status \in {"completed", "failed"},
          steps_recorded \in SeqsUpTo([step_id : {"s1"}, status : {"completed", "failed"}], 1) :
        history_files' = Append(history_files,
            [filename |-> history_filename("today", workflow_name, ToString(Len(history_files) + 1)),
             execution |-> [workflow_name |-> workflow_name, status |-> status,
                            steps |-> steps_recorded]])
    /\ UNCHANGED statistics
    /\ StatisticsUnchanged

GetWorkflowStatistics ==
    /\ \E workflow_name \in WorkflowTitles :
        statistics' = get_workflow_statistics(history_files, workflow_name)
    /\ UNCHANGED history_files
    /\ StatisticsUnchanged

InitStatistics ==
    /\ NoWorkflow
    /\ NoRegistry

NextStatistics ==
    \/ PersistExecution
    \/ GetWorkflowStatistics

SpecStatistics == InitStatistics /\ [][NextStatistics]_vars

-----------------------------------------------------------------------------
(* Execution ids (WorkflowHistory.start_execution): the executions of one
   history directory, each started at some reading of the clock. *)

\* datetime.now().strftime("%Y%m%d_%H%M%S_%f"): the reading, to the microsecond.
strftime(now) == ToString(now)

\* The file of this name replaced, or one more file (open(filepath, 'w')).
write_history_file(directory, filename, execution) ==
    IF \E k \in DOMAIN directory : directory[k].filename = filename
    THEN [k \in DOMAIN directory |->
              IF directory[k].filename = filename
              THEN [filename |-> filename, execution |-> execution]
              ELSE directory[k]]
    ELSE Append(directory, [filename |-> filename, execution |-> execution])

\* Time passes between two calls.
Tick ==
    /\ clock < MaxClock
    /\ clock' = clock + 1
    /\ UNCHANGED << current_executions, execution_ids, history_files, statistics >>
    /\ HistoryFilesUnchanged

\* start_execution: the id is the clock reading, and
\* `self.current_executions[execution_id] = execution`. The task description
\* tells the calls apart.
StartExecution ==
    /\ Len(execution_ids) < MaxStarts
    /\ \E workflow_name \in WorkflowTitles :
        LET execution_id == strftime(clock)
            execution == [execution_id |-> execution_id, workflow_name |-> workflow_name,
                          task_description |-> Len(execution_ids) + 1,
                          status |-> "running", steps |-> << >>]
        IN /\ current_executions' =
                  [id \in DOMAIN current_executions \cup {execution_id} |->
                       IF id = execution_id THEN execution ELSE current_executions[id]]
           /\ execution_ids' = Append(execution_ids, execution_id)
    /\ UNCHANGED << clock, history_files, statistics >>
    /\ HistoryFilesUnchanged

\* complete_execution of a live execution: its file is written and its entry
\* deleted from current_executions.
CompleteExecution ==
    /\ \E execution_id \in DOMAIN current_executions, ok \in BOOLEAN :
        LET execution == [current_executions[execution_id] EXCEPT
                              !.status = IF ok THEN "completed" ELSE "failed"]
            filename == history_filename("today", execution.workflow_name, execution_id)
        IN /\ history_files' = write_history_file(history_files, filename, execution)
           /\ current_executions' =
                  [id \in DOMAIN current_executions \ {execution_id} |-> current_executions[id]]
    /\ UNCHANGED << clock, execution_ids, statistics >>
    /\ HistoryFilesUnchanged

InitIds ==
    /\ NoWorkflow
    /\ NoRegistry

NextIds ==
    \/ Tick
    \/ StartExecution
    \/ CompleteExecution

SpecIds == InitIds /\ [][NextIds]_vars

-----------------------------------------------------------------------------
(* Properties *)

Done == pc = "done"

\* The template step a history record belongs to.
StepOf(k) == history.steps[k].step_id

Started(s) == FindStep(history, s) # 0

StatusOf(s) == history.steps[FindStep(history, s)].status

\* The step loop has dealt with step s (it is past it, inside its retry loop,
\* or it left the loop at it).
Reached(s) == s < i \/ (s = i /\ pc \in {"retry", "finish", "done"})

\* A required step was started and ended failed.
RequiredStepFailed ==
    \E k \in 1..Len(history.steps) :
        history.steps[k].status = "failed" /\ steps[StepOf(k)].required

\* C1: at the end of every run of either engine the returned verdict is true
\* when failed_steps = 0 (also with completed_steps = 0), true when
\* completed_steps > 0 and failed_steps < total_steps, and false otherwise;
\* total_steps is the number of steps of the template.
C1_Verdict ==
    Done =>
        /\ (failed_steps = 0 => success = TRUE)
        /\ (completed_steps > 0 /\ failed_steps < Len(steps) => success = TRUE)
        /\ (failed_steps # 0 /\ ~(completed_steps > 0 /\ failed_steps < Len(steps))
                => success = FALSE)
        /\ (failed_steps = 0 /\ completed_steps = 3 => success = TRUE)
        /\ (failed_steps = 1 /\ completed_steps = 2 /\ Len(steps) = 3 => success = TRUE)
        /\ (failed_steps = 3 /\ completed_steps = 0 /\ Len(steps) = 3 => success = FALSE)

\* A run of three steps with one failure and two completions, reported successful.
C1_Witness ==
    Done /\ Len(steps) = 3 /\ failed_steps = 1 /\ completed_steps = 2 /\ success = TRUE

\* Step s has been through the retry loop of the orchestrator and every
\* invocation of its agent failed.
AllAttemptsFailed(s) ==
    /\ engine = "orchestrator"
    /\ Reached(s) /\ ~(s = i /\ pc = "retry")
    /\ invocations[s] >= 1
    /\ StatusOf(s) # "completed"

\* C2 (state part): a step of the orchestrator with max_retries = n whose every
\* attempt failed had its agent invoked exactly n + 1 times and was marked
\* failed exactly once.
C2_AttemptsInv ==
    \A s \in 1..Len(steps) :
        AllAttemptsFailed(s) =>
            /\ invocations[s] = steps[s].max_retries + 1
            /\ fail_calls[s] = 1
            /\ StatusOf(s) = "failed"

\* C2 (step part): marking the step failed raises failed_steps by exactly 1, in
\* the engine and in the history record, and only after the n + 1 invocations.
C2_FailedStepsAct ==
    \A s \in 1..Len(steps) :
        (engine = "orchestrator" /\ pc = "retry" /\ fail_calls'[s] # fail_calls[s]) =>
            /\ fail_calls'[s] = fail_calls[s] + 1
            /\ failed_steps' = failed_steps + 1
            /\ history'.failed_steps = history.failed_steps + 1
            /\ invocations'[s] = steps[s].max_retries + 1

C3_RequiredFailureInv ==
    \A k \in 1..Len(history.steps) :
        (history.steps[k].status = "failed" /\ steps[StepOf(k)].required) =>
            /\ k = Len(history.steps)
            /\ \A s \in 1..Len(steps) : s > StepOf(k) => invocations[s] = 0 /\ ~Started(s)

\* C3 (step part): when an optional step is marked failed it is recorded as
\* failed and the loop goes on to the next step of the template.
C3_OptionalFailureAct ==
    \A s \in 1..Len(steps) :
        (~steps[s].required /\ fail_calls'[s] # fail_calls[s]) =>
            /\ history'.steps[FindStep(history', s)].status = "failed"
            /\ ~aborted'
            /\ i' = s + 1
            /\ (s < Len(steps) => pc' = "loop")

\* C3: a required step that ends without success after its retry budget stops
\* the run (no later step is started or invoked); an optional one is recorded
\* as failed and the next step is still processed.
C3_RequiredStopsOptionalContinues ==
    []C3_RequiredFailureInv /\ [][C3_OptionalFailureAct]_vars

\* An optional step failed, the next step was started, a required step failed
\* and the step after it was never started.
C3_Witness ==
    /\ Done /\ Len(steps) = 3
    /\ ~steps[1].required /\ Started(1) /\ StatusOf(1) = "failed"
    /\ steps[2].required /\ Started(2) /\ StatusOf(2) = "failed"
    /\ ~Started(3) /\ invocations[3] = 0

\* The template [A (required), B (required)] in which A was attempted and
\* never succeeded.
C4_Scenario ==
    /\ Len(steps) = 2 /\ steps[1].required /\ steps[2].required
    /\ Done
    /\ Started(1) /\ StatusOf(1) # "completed"

\* C4: for the template [A (required), B (required, depends_on A)] in which A
\* fails on every attempt, the run ends with persisted status "failed",
\* completed_steps = 0, failed_steps = 1, and B is never started or invoked.
C4_FirstRequiredFails ==
    C4_Scenario =>
        /\ history.status = "failed"
        /\ ~history.live
        /\ history.completed_steps = 0 /\ completed_steps = 0
        /\ history.failed_steps = 1 /\ failed_steps = 1
        /\ ~Started(2) /\ invocations[2] = 0
        /\ Len(history.steps) = 1

\* The scenario reached by the orchestrator after A used up two retries.
C4_Witness ==
    /\ C4_Scenario
    /\ engine = "orchestrator"
    /\ invocations[1] = 3
    /\ history.status = "failed"

GatesFailed == {history.quality_gates_failed[k] : k \in 1..Len(history.quality_gates_failed)}

\* C5: when a required quality gate fails after its step, no later step of the
\* template is started; a failing non-required gate is recorded in
\* quality_gates_failed (and does not stop the steps that follow).
C5_RequiredGateAborts ==
    \A g \in 1..Len(quality_gates) :
        (g \in GatesFailed /\ quality_gates[g].required) =>
            \A k \in 1..Len(history.steps) : StepOf(k) <= quality_gates[g].after_step

\* C6: in every state of a live execution, after any sequence of start_step,
\* complete_step, fail_step and skip_step calls,
\* completed_steps + failed_steps + skipped_steps <= total_steps.
C6_CounterBound ==
    history.live =>
        history.completed_steps + history.failed_steps + history.skipped_steps
            <= history.total_steps

TerminalWorkflowStatus == {"completed", "failed", "partial"}

\* C7 as stated: the terminal status is one of completed/failed/partial and is
\* determined solely by whether a required step failed irrecoverably.  A run
\* in which nothing fails ends "completed", so a status determined by that fact
\* alone is "completed" in every run without a failed required step.
C7_DeterminedByRequiredFailure ==
    Done =>
        /\ history.status \in TerminalWorkflowStatus
        /\ (~RequiredStepFailed => history.status = "completed")

\* C7 as amended: after complete_execution the status is exactly one of
\* completed/failed/partial (never running); it is "completed" when the
\* success argument is true and failed_steps = 0, "partial" when otherwise
\* failed_steps > 0 and completed_steps > 0, and "failed" in every other case;
\* a run in which a required step failed irrecoverably is never "completed".
C7_TerminalStatus ==
    Done =>
        /\ history.status \in TerminalWorkflowStatus
        /\ ~history.live
        /\ (history.status = "completed" <=> (success = TRUE /\ history.failed_steps = 0))
        /\ (history.status = "partial" <=>
                (~(success = TRUE /\ history.failed_steps = 0)
                 /\ history.failed_steps > 0 /\ history.completed_steps > 0))
        /\ (RequiredStepFailed => history.status \in {"failed", "partial"})

\* A finalised run in which a required step failed after another step completed.
C7_Witness ==
    Done /\ RequiredStepFailed /\ history.completed_steps > 0 /\ history.status = "partial"

C9_StepStateMachine ==
    [][\A k \in 1..Len(history.steps) :
          /\ (history.steps[k].status \in TerminalStepStatus
                => history'.steps[k].status = history.steps[k].status)
          /\ ((history'.steps[k].status \in TerminalStepStatus
               /\ history'.steps[k].status # history.steps[k].status)
                => history.steps[k].status = "running")]_vars

\* C10: in _execute_with_workflow a step is started only if it has been
\* reached in template order, it is not an optional step under the
\* skip-optional directive, and its approval was granted; a required step is
\* never skipped by the directive; in independent mode approval is always
\* granted, so every reached step not skipped by the directive is started.
C10_StartCondition ==
    engine = "orchestrator" =>
        /\ \A k \in 1..Len(history.steps) :
              /\ Reached(StepOf(k))
              /\ ~(~steps[StepOf(k)].required /\ skip_optional_steps)
              /\ approvals[StepOf(k)] = "True"
              /\ \A m \in 1..Len(history.steps) : k < m => StepOf(k) < StepOf(m)
        /\ \A s \in 1..Len(steps) :
              (steps[s].required /\ Reached(s)) => approvals[s] \in {"True", "False"}
        /\ execution_mode = "independent" =>
              \A s \in 1..Len(steps) :
                  (Reached(s) /\ ~(~steps[s].required /\ skip_optional_steps))
                      => (Started(s) /\ approvals[s] = "True")

\* An unattended run under the skip-optional directive that passed over an
\* optional step and started the required step after it.
C10_Witness ==
    /\ engine = "orchestrator" /\ execution_mode = "independent" /\ skip_optional_steps
    /\ Done /\ Len(steps) >= 2
    /\ ~steps[1].required /\ ~Started(1) /\ approvals[1] = "none"
    /\ steps[2].required /\ Started(2) /\ approvals[2] = "True"

\* C11: within one run steps are started in strictly increasing list position,
\* never two at a time, and depends_on has no influence: every step the loop
\* has reached is started unless the skip directive or the user's answer kept
\* it from starting, whatever it depends on.
C11_TemplateOrder ==
    /\ \A k, m \in 1..Len(history.steps) : k < m => StepOf(k) < StepOf(m)
    /\ \A k \in 1..Len(history.steps) :
          history.steps[k].status = "running" => k = Len(history.steps)
    /\ \A s \in 1..Len(steps) :
          (/\ Reached(s)
           /\ ~skip_by_directive(steps[s].required, skip_optional_steps)
           /\ approvals[s] \notin {"None", "False"})
          => Started(s)

\* Step 1 depends on the later step 2, step 3 depends on step 2 which failed
\* as an optional step; steps 1 and 3 were started all the same.
C11_Witness ==
    /\ Done
    /\ Len(steps) = 3
    /\ depends_on[1] = {2}
    /\ depends_on[3] = {2}
    /\ ~steps[2].required
    /\ Started(1) /\ Started(2) /\ Started(3)
    /\ StatusOf(2) = "failed"
    /\ StatusOf(3) = "completed"

\* C12: once complete_execution has finalised an execution, no later call of
\* the history API with its id changes the persisted record or the in-memory
\* state: the live entry is gone and every such call is a no-op.
C12_FinalisedIsImmutable ==
    [][history.status \in TerminalWorkflowStatus => history' = history]_vars

\* A start_step call made after the execution was finalised.
C12_Witness ==
    /\ history.status \in TerminalWorkflowStatus
    /\ ~history.live
    /\ last_call = "start_step"
    /\ Len(history.steps) = 1

C14_LevelNeverLowered ==
    [][\A name \in DOMAIN agents :
          Rank(agents'[name].skill_level) >= Rank(agents[name].skill_level)]_vars

\* An agent whose success rate fell below every threshold after it was
\* promoted, still at the level it was promoted to.
C14_Witness ==
    \E name \in DOMAIN agents :
        /\ initial_level[name] = "novice"
        /\ agents[name].skill_level = "intermediate"
        /\ agents[name].metrics.total_tasks >= 10
        /\ agents[name].metrics.successful_tasks * 2 < agents[name].metrics.total_tasks

\* The level the rules of the claim give: the first matching rule, checked
\* from the top, applied once to the counters after the update and the level
\* before the call.
C15_RuleLevel(level, total, successful) ==
    IF total >= 50 /\ successful * 100 >= 90 * total /\ level = "expert" THEN "master"
    ELSE IF total >= 20 /\ successful * 100 >= 85 * total /\ level = "intermediate" THEN "expert"
    ELSE IF total >= 5 /\ successful * 100 >= 75 * total /\ level = "novice" THEN "intermediate"
    ELSE level

C15_OneCall ==
    \A name \in DOMAIN agents :
        agents'[name] # agents[name] =>
            /\ agents'[name].skill_level =
                   C15_RuleLevel(agents[name].skill_level,
                                 agents'[name].metrics.total_tasks,
                                 agents'[name].metrics.successful_tasks)
            /\ Rank(agents'[name].skill_level) <= Rank(agents[name].skill_level) + 1

C15_FromNovice ==
    \A name \in DOMAIN agents :
        initial_level[name] = "novice" =>
            /\ agents[name].skill_level = "intermediate" => agents[name].metrics.total_tasks >= 5
            /\ agents[name].skill_level = "expert" => agents[name].metrics.total_tasks >= 20
            /\ agents[name].skill_level = "master" => agents[name].metrics.total_tasks >= 50

\* C15: after every update_metrics call the agent's level is the result of the
\* first matching promotion rule applied once (unchanged if none matches), so
\* one call raises the level by at most one and an agent that started as
\* novice with zero counters is intermediate only with total_tasks >= 5, expert
\* only with total_tasks >= 20 and master only with total_tasks >= 50.
C15_PromotionRules ==
    []C15_FromNovice /\ [][C15_OneCall]_vars

\* An agent registered as novice that has become master.
C15_Witness ==
    \E name \in DOMAIN agents :
        /\ initial_level[name] = "novice"
        /\ agents[name].skill_level = "master"
        /\ agents[name].metrics.total_tasks = 50

\* C16: after every update_metrics call avg_completion_time is
\* (old_avg * (n - 1) + duration) / n, n being the updated total_tasks, for
\* every old_avg, n and duration.
C16_IncrementalMean ==
    [][\A name \in DOMAIN agents :
          agents'[name] # agents[name] =>
              LET old_avg == agents[name].metrics.avg_completion_time
                  n == agents'[name].metrics.total_tasks
                  duration == duration_sum'[name] - duration_sum[name]
              IN agents'[name].metrics.avg_completion_time =
                     Reduce(old_avg[1] * (n - 1) + duration * old_avg[2], old_avg[2] * n)]_vars

\* Every invocation of a dispatched task has finished.
C17_InvocationsFinished(t) ==
    /\ \A k \in DOMAIN dispatches[t].primary : Finished(dispatches[t].primary_status[k])
    /\ \A k \in DOMAIN dispatches[t].supporting : Finished(dispatches[t].supporting_status[k])

\* An agent record with no partially applied update.
C17_Whole(registry) ==
    \A name \in DOMAIN registry :
        registry[name].metrics.total_tasks =
            registry[name].metrics.successful_tasks + registry[name].metrics.failed_tasks

C17_AfterInvocations ==
    /\ \A t \in DOMAIN dispatches :
          dispatches[t].recorded > 0 => C17_InvocationsFinished(t)
    /\ Cardinality({t \in DOMAIN dispatches : dispatches[t].phase = "recording"}) <= 1
    /\ C17_Whole(agents)
    /\ C17_Whole(registry_file)

C17_OneAtATime ==
    agents' # agents =>
        /\ \E t \in DOMAIN dispatches :
              /\ C17_InvocationsFinished(t)
              /\ dispatches'[t].recorded = dispatches[t].recorded + 1
              /\ \A u \in DOMAIN dispatches \ {t} : dispatches'[u] = dispatches[u]
        /\ \E name \in DOMAIN agents :
              /\ agents'[name].metrics.total_tasks = agents[name].metrics.total_tasks + 1
              /\ \A other \in DOMAIN agents \ {name} : agents'[other] = agents[other]
        /\ registry_file' = agents'

\* C17: within one dispatch every metrics update happens after all primary
\* and supporting invocations of the task have finished, and the updates are
\* applied one at a time: each changes one agent's record by one whole
\* update, no second task updates in between, and neither the registry in
\* memory nor the registry file ever holds a partially applied update.
C17_UpdatesAfterInvocations ==
    []C17_AfterInvocations /\ [][C17_OneAtATime]_vars

\* A task with two supporting agents run concurrently is between its first
\* and its second update while another task has an invocation in flight.
C17_Witness ==
    \E t, u \in DOMAIN dispatches :
        /\ t # u
        /\ dispatches[t].can_parallelize
        /\ Len(dispatches[t].supporting) = 2
        /\ dispatches[t].phase = "recording"
        /\ dispatches[t].recorded = 1
        /\ Len(dispatches[t].all_results) >= 2
        /\ \E k \in DOMAIN dispatches[u].primary : dispatches[u].primary_status[k] = "running"

\* select_agents has returned.
Selected == router_pc = "returned"

\* C18: for every task, every directory and every max_agents >= 0,
\* select_agents returns at most max_agents assignments.
C18_AtMostMaxAgents ==
    Selected => Len(assignments) <= max_agents

\* C19: whenever the directory is not empty, select_agents returns at least
\* one assignment, whatever the task and the names of the registered agents
\* (stated for the calls that allow an assignment, max_agents >= 1).
C19_NeverEmpty ==
    (Selected /\ agent_order # << >> /\ max_agents >= 1) => Len(assignments) >= 1

\* C20: whenever no registered agent shares a capability with the task's
\* required capabilities (also when the required set is empty), select_agents
\* returns the default agent as a primary assignment with confidence 0.0 and
\* its low-confidence reason, whether or not supporting agents were added
\* (stated for a directory in which the default agent is registered and for
\* max_agents >= 1).
C20_DefaultPrimary ==
    (/\ Selected
     /\ "code_writer" \in DOMAIN agents
     /\ max_agents >= 1
     /\ \A name \in DOMAIN agents :
           agents[name].capabilities \cap analysis.required_capabilities = {})
    => \E k \in DOMAIN assignments :
           assignments[k] = Assignment("code_writer", "primary", Zero,
                                       "Default agent for general tasks")

\* C21: every assignment select_agents returns (primary, supporting, optional
\* or fallback) has a confidence_score within [0, 0.95], whatever the skill
\* level and the metrics of the agents.
C21_ConfidenceInRange ==
    Selected =>
        \A k \in DOMAIN assignments :
            /\ ~Less(assignments[k].confidence_score, Zero)
            /\ ~Less(<< 19, 20 >>, assignments[k].confidence_score)

\* A master that succeeded at every task is primary with the capped
\* confidence, next to a supporting agent.
C21_Witness ==
    /\ Selected
    /\ Len(assignments) >= 2
    /\ assignments[1].priority = "primary"
    /\ agents[assignments[1].agent].skill_level = "master"
    /\ agents[assignments[1].agent].metrics.total_tasks = MaxRecorded
    /\ assignments[1].confidence_score = << 19, 20 >>
    /\ assignments[2].priority = "supporting"

\* The candidates of find_best_agent: the positions of the agents that are
\* not excluded and share a capability with the task, compared in lower case.
Candidates ==
    {k \in DOMAIN agent_order :
        /\ agent_order[k] \notin excluded
        /\ lower_caps(agents[agent_order[k]].capabilities)
               \cap lower_caps(analysis.required_capabilities) # {}}

\* overlap_count x skill_multiplier(tier) x (success_rate / 100), as a number.
ScoreOf(k) ==
    LET a == agents[agent_order[k]]
    IN IF a.metrics.total_tasks = 0 THEN Zero
       ELSE Reduce(Cardinality(lower_caps(a.capabilities)
                                  \cap lower_caps(analysis.required_capabilities))
                       * skill_bonus(a.skill_level) * a.metrics.successful_tasks,
                   10 * a.metrics.total_tasks)

\* C22: find_best_agent returns a candidate of the maximum score, the one
\* registered first among those sharing the maximum; it returns no agent only
\* when there is no candidate, and never an excluded agent.
C22_FirstOfTheBest ==
    router_pc = "found" =>
        IF Candidates = {} THEN best_agent = "None"
        ELSE \E k \in Candidates :
                /\ best_agent = agent_order[k]
                /\ \A j \in Candidates :
                       /\ ~Less(ScoreOf(k), ScoreOf(j))
                       /\ j < k => Less(ScoreOf(j), ScoreOf(k))

\* The primary assignment of a select_agents call, if there is one.
HasPrimary ==
    /\ Selected
    /\ assignments # << >>
    /\ assignments[1].priority = "primary"
    /\ assignments[1].reason = "Best match"

\* confidence = min(0.95, overlap ratio x success rate x multiplier / 10)
ConfidenceIs(confidence, a, tenths) ==
    LET required == lower_caps(analysis.required_capabilities)
        overlap == Cardinality(lower_caps(a.capabilities) \cap required)
        num == overlap * a.metrics.successful_tasks * tenths
        den == Cardinality(required) * a.metrics.total_tasks * 10
    IN IF a.metrics.total_tasks = 0 THEN confidence = Zero
       ELSE IF 20 * num > 19 * den THEN confidence = << 19, 20 >>
       ELSE confidence[1] * den = num * confidence[2]

\* C23 as stated: the primary's confidence is min(0.95, overlap ratio x
\* (success_rate / 100) x multiplier) with the multipliers of the scoring:
\* novice 1.0, intermediate 1.2, expert 1.5, master 2.0.
C23_ScoringMultipliers ==
    HasPrimary =>
        LET a == agents[assignments[1].agent]
        IN ConfidenceIs(assignments[1].confidence_score, a, skill_bonus(a.skill_level))

\* C23, amended: the primary's confidence is min(0.95, overlap ratio x
\* (success_rate / 100) x multiplier) with the multipliers novice 0.8,
\* intermediate 1.0, expert 1.2, master 1.5.
C23_ConfidenceMultipliers ==
    HasPrimary =>
        LET a == agents[assignments[1].agent]
            tenths == CASE a.skill_level = "novice" -> 8
                        [] a.skill_level = "intermediate" -> 10
                        [] a.skill_level = "expert" -> 12
                        [] a.skill_level = "master" -> 15
        IN ConfidenceIs(assignments[1].confidence_score, a, tenths)

\* A novice that succeeded at its only task and has every required
\* capability is primary with confidence 0.8.
C23_Witness ==
    /\ HasPrimary
    /\ agents[assignments[1].agent].skill_level = "novice"
    /\ agents[assignments[1].agent].metrics.total_tasks = 1
    /\ lower_caps(analysis.required_capabilities)
           \subseteq lower_caps(agents[assignments[1].agent].capabilities)
    /\ assignments[1].confidence_score = << 4, 5 >>

\* The primary assignments of the returned list.
Primaries == {k \in DOMAIN assignments : assignments[k].priority = "primary"}

\* C24: for an implementation, bug_fixing or refactoring task select_agents
\* returns the tester with priority "supporting" whenever a tester is
\* registered, is not the primary and max_agents leaves room after the
\* primary, whether or not a primary was found.
C24_TesterSupports ==
    (/\ Selected
     /\ analysis.task_type \in {"implementation", "bug_fixing", "refactoring"}
     /\ "tester" \in DOMAIN agents
     /\ \A k \in Primaries : assignments[k].agent # "tester"
     /\ max_agents > Cardinality(Primaries))
    => \E k \in DOMAIN assignments :
          /\ assignments[k].agent = "tester"
          /\ assignments[k].priority = "supporting"

\* A bug_fixing task (as "Fix bug in login flow" is classified) gets an agent
\* with the bug_fixing capability as primary and the tester as supporting.
C24_Witness ==
    /\ Selected
    /\ analysis.task_type = "bug_fixing"
    /\ "bug_fixing" \in analysis.required_capabilities
    /\ Len(assignments) = 2
    /\ assignments[1].priority = "primary"
    /\ "bug_fixing" \in agents[assignments[1].agent].capabilities
    /\ assignments[2].agent = "tester"
    /\ assignments[2].priority = "supporting"

\* C25: analyze_task is a function of the description alone: a call with the
\* text of the call before it returns the same TaskAnalysis (task type,
\* required capabilities, complexity, parallelizable flag, subtask estimate
\* and keywords), whatever happened to the registry in between, and no call
\* changes the registry, the templates or the execution history.
C25_SameTextSameAnalysis == analyses >= 2 => task_analysis = earlier_analysis

C25_CallChangesNothing ==
    analyses' # analyses => UNCHANGED << workflowVars, registryVars, dispatchVars, agent_order >>

IsPercentage(rate, metrics) ==
    LET s == metrics.successful_tasks
        t == metrics.total_tasks
        error == rate[1] * t - 100 * s * rate[2]
        distance == IF error < 0 THEN -error ELSE error
    IN /\ s = 0 => rate = Zero
       /\ s = t => rate = << 100, 1 >>
       /\ distance * 2 ^ (2 * Precision) <= 100 * s * rate[2] * (2 * 2 ^ Precision + 1)

\* C26: after any sequence of update_metrics calls the success rate of an
\* agent is 0 when total_tasks is 0 and successful_tasks / total_tasks * 100
\* otherwise; it is computed from the counters when it is read: neither the
\* metrics in memory nor those written to registry.json hold a rate of
\* their own, and the counters they hold are those of the calls made.
C26_RateFromCounters ==
    \A name \in DOMAIN agents :
        LET metrics == agents[name].metrics
        IN /\ DOMAIN metrics = DOMAIN NewMetrics
           /\ registry_file[name].metrics = metrics
           /\ metrics.successful_tasks + metrics.failed_tasks = metrics.total_tasks
           /\ IF metrics.total_tasks = 0 THEN success_rate(metrics) = Zero
              ELSE IsPercentage(success_rate(metrics), metrics)

\* Two of three tasks succeeded: the rate read is 66.67 to the precision,
\* and it is not a percentage that could have been stored as a binary number.
C26_Witness ==
    \E name \in DOMAIN agents :
        /\ agents[name].metrics.total_tasks = 3
        /\ agents[name].metrics.successful_tasks = 2
        /\ ~Less(success_rate(agents[name].metrics), << 66, 1 >>)
        /\ ~Less(<< 67, 1 >>, success_rate(agents[name].metrics))

\* The execution was finalised by complete_execution.
Finalised == ~history.live /\ history.status \in TerminalWorkflowStatus

C28_LearnedNeverActive ==
    /\ \A p \in DOMAIN files :
           files[p].author = "learning-system" => parent(p) = learned_dir
    /\ \A w \in returned : w.author # "learning-system"

\* The artifacts of the recorded invocation of step k pass every rule the step
\* declares, checked on the files created and in the workspace.
RulesPassed(k) ==
    validate_step_outputs(validation[k], produced[k].created, TRUE, produced[k])

\* C29: in both engines a step that declares validation rules is recorded as
\* completed only when every declared rule was checked against the artifacts
\* produced and passed; a step recorded as completed never has a failed
\* validation on record.
C29_CompletedOnlyIfValidated ==
    \A k \in 1..Len(history.steps) :
        LET step == history.steps[k]
        IN step.status = "completed" /\ validation[step.step_id] # {}
            => /\ RulesPassed(step.step_id)
               /\ validation_passed[step.step_id]

\* The gates evaluated in the run, in the order of the two lists.
GatesRecorded == history.quality_gates_passed \o history.quality_gates_failed

\* C30: a quality gate is evaluated only after its after_step was recorded
\* as completed in the run, never after that step failed or was skipped, and
\* at most once per run, each evaluation adding the gate to exactly one of
\* quality_gates_passed and quality_gates_failed.
C30_GateOnlyAfterCompletion ==
    /\ \A g \in 1..Len(GatesRecorded) :
           \E k \in 1..Len(history.steps) :
               /\ history.steps[k].step_id = quality_gates[GatesRecorded[g]].after_step
               /\ history.steps[k].status = "completed"
    /\ \A g, h \in 1..Len(GatesRecorded) : GatesRecorded[g] = GatesRecorded[h] => g = h

\* The Step Execution records of step k of the template.
RecordsOf(k) == {j \in 1..Len(history.steps) : history.steps[j].step_id = k}

\* C31: however many attempts a step takes, the execution holds exactly one
\* Step Execution record for it; total_steps is the number of records, that
\* is of steps started; a step that succeeded on a retry is recorded as
\* completed only and no fail_step was called for it, so failed_steps counts
\* the failed records only.
C31_OneRecordPerStep ==
    /\ \A k \in 1..Len(steps) :
           /\ Cardinality(RecordsOf(k)) <= 1
           /\ invocations[k] > 0 => Cardinality(RecordsOf(k)) = 1
           /\ (\E j \in RecordsOf(k) : history.steps[j].status = "completed")
                  => fail_calls[k] = 0
    /\ history.total_steps = Len(history.steps)
    /\ history.failed_steps
           = Cardinality({j \in 1..Len(history.steps) : history.steps[j].status = "failed"})

\* A run has ended in which a step succeeded on its last retry, after failed
\* attempts.
C31_Witness ==
    /\ pc = "done"
    /\ \E k \in 1..Len(steps) :
           /\ invocations[k] = MaxRetries + 1
           /\ \E j \in RecordsOf(k) : history.steps[j].status = "completed"

\* C32: in a parallelizable dispatch the supporting agents are invoked only
\* after the primary group has finished, their results are collected only
\* after all of them have finished, and the concurrent invocations share no
\* mutable state: while a supporting invocation runs, the prompt.txt of its
\* workspace is the one it wrote, also with a common project_path.
C32_IndependentInvocations ==
    \A t \in DOMAIN dispatches :
        LET d == dispatches[t] IN
        d.can_parallelize =>
            /\ \A k \in DOMAIN d.supporting :
                   d.supporting_status[k] # "pending"
                       => \A j \in DOMAIN d.primary : Finished(d.primary_status[j])
            /\ d.phase \in {"recording", "done"}
                   => \A k \in DOMAIN d.supporting : Finished(d.supporting_status[k])
            /\ \A k \in DOMAIN d.supporting :
                   d.supporting_status[k] = "running"
                       => prompt_file[agent_workspace(t, d.supporting[k])]
                              = << d.supporting[k], t >>

\* The update_metrics calls the registry file reflects.
RECURSIVE TasksRecorded(_, _)
TasksRecorded(registry, names) ==
    IF names = {} THEN 0
    ELSE LET name == CHOOSE n \in names : TRUE
         IN registry[name].metrics.total_tasks + TasksRecorded(registry, names \ {name})

\* C33: writers to the registry file are serialized so that no update is
\* lost: once every instance has made its update_metrics call, in any
\* interleaving of their load, update and save steps, the file reflects all
\* the updates.
C33_NoLostUpdate ==
    (\A w \in DOMAIN writers : writers[w].pc = "saved")
        => TasksRecorded(registry_file, DOMAIN registry_file) = Len(writers)

\* The persisted executions of the workflow called `workflow_name`.
ExecutionsOf(workflow_name) ==
    {e \in 1..Len(history_files) : history_files[e].execution.workflow_name = workflow_name}

\* The statistics are those of the executions of the workflow asked for.
C34_Exact(stats) ==
    /\ stats.total_executions = Cardinality(ExecutionsOf(stats.workflow_name))
    /\ stats.completed
           = Cardinality({e \in ExecutionsOf(stats.workflow_name) :
                             history_files[e].execution.status = "completed"})
    /\ \A id \in DOMAIN stats.step_statistics :
           LET s == stats.step_statistics[id]
               records == {x \in ExecutionsOf(stats.workflow_name) \X {1} :
                              /\ history_files[x[1]].execution.steps # << >>
                              /\ history_files[x[1]].execution.steps[1].step_id = id}
               done == {x \in records :
                           history_files[x[1]].execution.steps[1].status = "completed"}
           IN s.success_rate = float_div(<< Cardinality(done), 1 >>,
                                         << Cardinality(records), 1 >>)

\* C34: get_workflow_statistics(name) aggregates exactly the persisted
\* executions whose workflow_name equals name, none of another workflow and
\* all of that one, and each per-step success rate is the number of completed
\* records of the step id divided by the number of its records.
C34_ExactAggregation ==
    [][statistics' # statistics => C34_Exact(statistics')]_vars

\* C35: at the end of every run, the completed_steps and failed_steps the engine
\* returns are the completed_steps and failed_steps of the finalised execution
\* record, on every path (agent missing, retries, skip, rejection by the user).
C35_CountersAgree ==
    (Done /\ Finalised) =>
        /\ completed_steps = history.completed_steps
        /\ failed_steps = history.failed_steps

\* C36: in every finalised execution record every step record has a terminal
\* status (completed, failed or skipped); none is left running.
C36_NoStepLeftRunning ==
    Finalised => \A k \in 1..Len(history.steps) : history.steps[k].status \in TerminalStepStatus

\* The steps the orchestrator has skipped: by the skip-optional directive, or on
\* the user's answer in interactive mode.
EngineSkipped ==
    {s \in 1..Len(steps) :
        /\ engine = "orchestrator"
        /\ Reached(s)
        /\ \/ skip_by_directive(steps[s].required, skip_optional_steps)
           \/ approvals[s] = "None"}

\* C37: every step the engine skips is reflected in the execution: a step record
\* with status skipped exists for it, and skipped_steps is the number of steps
\* skipped.
C37_SkipsRecorded ==
    /\ \A s \in EngineSkipped : Started(s) /\ StatusOf(s) = "skipped"
    /\ history.live \/ Finalised => history.skipped_steps = Cardinality(EngineSkipped)

\* C38: complete_execution never loses an execution: a started execution is
\* either still in the live table or its record is in the history directory.
C38_NeverLost ==
    history # NoExecution =>
        \/ history.live
        \/ \E k \in DOMAIN history_dir : load_execution(history_dir[k]) = history

\* The calls whose execution is still live or has its record in the directory.
Kept ==
    {current_executions[id].task_description : id \in DOMAIN current_executions} \cup
    {history_files[k].execution.task_description : k \in DOMAIN history_files}

\* C39: every start_execution call returns an id no other call returned, so no
\* execution replaces another's live state or overwrites another's record:
\* every execution started is still live or persisted.
C39_UniqueIds ==
    /\ \A a, b \in DOMAIN execution_ids : a # b => execution_ids[a] # execution_ids[b]
    /\ \A call \in DOMAIN execution_ids : call \in Kept

\* C40: a dispatch reports success only if at least one primary agent was
\* invoked and every primary invocation succeeded.
C40_SuccessNeedsPrimary ==
    \A t \in DOMAIN dispatches :
        (dispatches[t].phase # "executing" /\ dispatches[t].success) =>
            /\ Len(dispatches[t].primary) >= 1
            /\ \A k \in DOMAIN dispatches[t].primary : dispatches[t].primary_status[k] = "success"

====
